---- MODULE Spec2Model ----
(***************************************************************************)
(* Command correlation and publishing in the Naeural web client.           *)
(*                                                                         *)
(* NaeuralWebClient.publish (src/src/web.client.js) registers a tracked    *)
(* request with StateManager.registerMessage (src/unnamed/part_001),       *)
(* signs the command with NaeuralBC.sign (src/src/web.blockchain.js) and   *)
(* hands the envelope to the transport.  Inbound notifications reach       *)
(* StateManager.onRequestResponseNotification through                      *)
(* NaeuralWebClient._notificationsProcessor.                               *)
(*                                                                         *)
(* NetworkRequestsHandler and NetworkRequest (./network.requests.handler)  *)
(* are imported by part_001 but their source is not available; their       *)
(* operations (createRequest, watch, setTimeoutIds, timeout, process,      *)
(* find, destroy, isClosed) are modelled from section 4.2 of the           *)
(* specification.                                                          *)
(*                                                                         *)
(* The model starts after construction and connect(): no identity is       *)
(* loaded, no command was published.  The TIME field of a command is not   *)
(* modelled.                                                               *)
(***************************************************************************)
EXTENDS Integers, Sequences, FiniteSets, TLC

\* Number of publish calls of a run.
MaxPublish == 2

\* Number of publish calls of a run checked for liveness.
MaxFairPublish == 1

Null == "null"

Nodes == {"n1", "n2"}
Pipelines == {"p1", "p2"}
Signatures == {"s1", "s2"}
Instances == {"i1"}

\* A PathTuple: <<node, pipeline, signature, instance>>.
Path(n, p, s, i) == <<n, p, s, i>>

\* The EE_PAYLOAD_PATH values of inbound notification frames.
NotificationPaths ==
    { Path(n, p, t[1], t[2]) : n \in Nodes, p \in Pipelines,
                               t \in (Signatures \X Instances) \cup {<<Null, Null>>} }

Keys == {"k1"}

\* The inbound channels (HEARTBEATS_STREAM, NOTIFICATIONS_STREAM, PAYLOADS_STREAM).
Channels == {"heartbeats", "notifications", "payloads"}

VARIABLES
    identity,   \* NaeuralBC.keyPair: Null until loadIdentity
    calls,      \* the publish calls made so far, in call order
    requests,   \* the NetworkRequests created so far; the session id is the position
    index,      \* NetworkRequestsHandler's active-request index: node -> session id, 0 for none
    timers,     \* the setTimeout handles created so far
    outbound,   \* what mqttConnection.publish was given
    fleet,      \* bootOptions.fleet
    hb,         \* StateManager.state.hb: node -> <<>> or <<snapshot>>
    universe,   \* StateManager.state.universe: node -> last-seen timestamp, 0 for none
    now,        \* new Date().getTime()
    streams,    \* the three inbound channels: the subscription and the frames concatMap holds
    supervisor, \* the decodes _processSupervisorMessage started and did not finish
    dispatched, \* per channel, the arrival numbers of the frames handed to its processor
    events,     \* the events emitted to external subscribers
    caller,     \* the value a direct caller of the library holds and passes in
    returned    \* the outcome of the last direct call: what it returned or threw

inbound == <<fleet, hb, universe, now, streams, supervisor, dispatched, events>>

direct == <<caller, returned>>

vars == <<identity, calls, requests, index, timers, outbound, inbound, direct>>

(***************************************************************************)
(* Commands.  A message is a record [ACTION, PAYLOAD]; PAYLOAD is written  *)
(* as a sequence of [NAME, SIGNATURE, INSTANCE_ID] records: one element    *)
(* for the single-target commands (unused fields Null; for ARCHIVE_CONFIG, *)
(* whose payload is the pipeline name itself, NAME holds it), one element  *)
(* per instance for a batch update.  NoMessage is a falsy message.         *)
(***************************************************************************)
NODE_COMMAND_UPDATE_PIPELINE_INSTANCE == "UPDATE_PIPELINE_INSTANCE"
NODE_COMMAND_UPDATE_CONFIG == "UPDATE_CONFIG"
NODE_COMMAND_PIPELINE_COMMAND == "PIPELINE_COMMAND"
NODE_COMMAND_ARCHIVE_CONFIG == "ARCHIVE_CONFIG"
NODE_COMMAND_BATCH_UPDATE_PIPELINE_INSTANCE == "BATCH_UPDATE_PIPELINE_INSTANCE"

Target(p, s, i) == [NAME |-> p, SIGNATURE |-> s, INSTANCE_ID |-> i]

NoMessage == [ACTION |-> Null, PAYLOAD |-> <<>>]

UpdateConfig == [ACTION |-> NODE_COMMAND_UPDATE_CONFIG, PAYLOAD |-> <<Target("p1", Null, Null)>>]

BatchUpdate ==
    [ACTION |-> NODE_COMMAND_BATCH_UPDATE_PIPELINE_INSTANCE,
     PAYLOAD |-> <<Target("p1", "s1", "i1"), Target("p2", "s2", "i1")>>]

\* A command whose action adds no watch.
Restart == [ACTION |-> "RESTART", PAYLOAD |-> <<>>]

\* The arguments of the publish calls: <<node, message, extraWatches>>.
PublishArgs ==
    { <<"n1", UpdateConfig, <<>> >>,
      <<"n1", BatchUpdate, <<>> >>,
      <<"n1", Restart, <<>> >>,
      <<"n2", Restart, <<Path("n2", "p2", Null, Null)>> >>,
      <<"n1", NoMessage, <<>> >> }

\* bootOptions.initiator
Initiator == "initiator"

(***************************************************************************)
(* The correlation engine works on the bundle                              *)
(*   W = [requests, timers, calls, index, hb]                              *)
(* request: [call, action, watches, state, timeoutIds], a watch being      *)
(*          [path, satisfied]; onSuccess/onFail are the resolve/reject of  *)
(*          the promise of publish call `call`.                            *)
(* timer:   [status, request], status armed | fired | cleared.             *)
(* call:    [node, message, watches, matched, late, request, pc, toSend,   *)
(*           promise, resolveCalls, rejectCalls].                          *)
(***************************************************************************)
Bundle(rq, tm, cl, ix, h) ==
    [requests |-> rq, timers |-> tm, calls |-> cl, index |-> ix, hb |-> h]

\* resolve of the promise created by publish: the first settlement wins.
resolve(W, c) ==
    [W EXCEPT !.calls[c].resolveCalls = @ + 1,
              !.calls[c].promise = IF @ = "pending" THEN "resolved" ELSE @]

\* reject of the promise created by publish.
reject(W, c) ==
    [W EXCEPT !.calls[c].rejectCalls = @ + 1,
              !.calls[c].promise = IF @ = "pending" THEN "rejected" ELSE @]

\* clearTimeout(t): an armed timer never fires; anything else is left alone.
clearTimeout(W, t) ==
    IF t \in DOMAIN W.timers /\ W.timers[t].status = "armed"
    THEN [W EXCEPT !.timers[t].status = "cleared"]
    ELSE W

RECURSIVE clearTimeouts(_, _)
clearTimeouts(W, ids) ==
    IF ids = <<>> THEN W ELSE clearTimeouts(clearTimeout(W, Head(ids)), Tail(ids))

\* createRequest(action, onSuccess, onFail): a new session id, no watch, Pending.
createRequest(W, action, c) ==
    [W EXCEPT !.requests = Append(@, [call |-> c, action |-> action, watches |-> <<>>,
                                       state |-> "Pending", timeoutIds |-> <<>>])]

\* request.watch(path): appends an unsatisfied watch; the request is indexed
\* under the node of the path.
watch(W, r, path) ==
    [W EXCEPT !.requests[r].watches = Append(@, [path |-> path, satisfied |-> FALSE]),
              !.index[path[1]] = r]

\* request.setTimeoutIds(first, max)
setTimeoutIds(W, r, first, max) ==
    [W EXCEPT !.requests[r].timeoutIds = <<first, max>>]

\* request.isClosed()
isClosed(W, r) == W.requests[r].state \in {"Satisfied", "TimedOut"}

\* Prefix-aware equality of a watch path and a notification path.
Matches(w, p) == \A k \in 1..4 : w[k] = Null \/ w[k] = p[k]

\* request.timeout(): while Pending, TimedOut and onFail; both timers cancelled.
timeout(W, r) ==
    IF W.requests[r].state # "Pending" THEN W
    ELSE clearTimeouts(
            reject([W EXCEPT !.requests[r].state = "TimedOut"], W.requests[r].call),
            W.requests[r].timeoutIds)

\* request.process(message): while Pending, marks every unsatisfied watch the
\* notification matches; a match ends the first-response window; once all
\* watches are satisfied, Satisfied and onSuccess, both timers cancelled.
process(W, r, message) ==
    LET path == message.context.metadata.EE_PAYLOAD_PATH
        req == W.requests[r]
        ws == [k \in DOMAIN req.watches |->
                 [req.watches[k] EXCEPT !.satisfied = @ \/ Matches(req.watches[k].path, path)]]
        hit == \E k \in DOMAIN req.watches :
                 ~req.watches[k].satisfied /\ Matches(req.watches[k].path, path)
        all == \A k \in DOMAIN ws : ws[k].satisfied
        W1 == [W EXCEPT !.requests[r].watches = ws]
        W2 == IF hit /\ req.timeoutIds # <<>> THEN clearTimeout(W1, req.timeoutIds[1]) ELSE W1
    IN  IF req.state # "Pending" THEN W
        ELSE IF all
             THEN clearTimeouts(
                    resolve([W2 EXCEPT !.requests[r].state = "Satisfied"], req.call),
                    req.timeoutIds)
             ELSE W2

\* networkRequestsHandler.find(path): lookup by the node of the path; 0 is null.
find(W, path) == W.index[path[1]]

\* destroy that takes the entry of the node out when there is one and puts
\* the latest request in when there is none.
destroy_Toggle(W, path) ==
    [W EXCEPT !.index[path[1]] = IF @ = 0 THEN Len(W.requests) ELSE 0]

\* networkRequestsHandler.destroy(path): removes the entry of the node; idempotent.
destroy(W, path) == [W EXCEPT !.index[path[1]] = 0]

(***************************************************************************)
(* StateManager (src/unnamed/part_001)                                     *)
(***************************************************************************)
RECURSIVE watchAll(_, _, _)
watchAll(W, r, watches) ==
    IF watches = <<>> THEN W ELSE watchAll(watch(W, r, Head(watches)), r, Tail(watches))

\* registerMessage watching only the first path it is given.
registerMessage_FirstWatchOnly(W, message, watches, c) ==
    LET W1 == createRequest(W, message.ACTION, c)
        r == Len(W1.requests)
        W2 == watchAll(W1, r, IF watches = <<>> THEN <<>> ELSE <<Head(watches)>>)
        firstResponseTimeout == Len(W.timers) + 1
        completeTimeout == Len(W.timers) + 2
        W3 == [W2 EXCEPT !.timers = @ \o
                 << [status |-> "armed", request |-> r, kind |-> "firstResponse"],
                    [status |-> "armed", request |-> r, kind |-> "complete"] >>]
    IN  setTimeoutIds(W3, r, firstResponseTimeout, completeTimeout)

\* registerMessage handing the two timer handles over in the wrong order.
registerMessage_SwappedIds(W, message, watches, c) ==
    LET W1 == createRequest(W, message.ACTION, c)
        r == Len(W1.requests)
        W2 == watchAll(W1, r, watches)
        firstResponseTimeout == Len(W.timers) + 1
        completeTimeout == Len(W.timers) + 2
        W3 == [W2 EXCEPT !.timers = @ \o
                 << [status |-> "armed", request |-> r, kind |-> "firstResponse"],
                    [status |-> "armed", request |-> r, kind |-> "complete"] >>]
    IN  setTimeoutIds(W3, r, completeTimeout, firstResponseTimeout)

\* registerMessage starting no timer.
registerMessage_NoTimers(W, message, watches, c) ==
    LET W1 == createRequest(W, message.ACTION, c)
        r == Len(W1.requests)
    IN  watchAll(W1, r, watches)

\* registerMessage(message, watches, onSuccess, onFail): the request, its
\* watches, the two timers, and their handles given to the request.
registerMessage(W, message, watches, c) ==
    LET W1 == createRequest(W, message.ACTION, c)
        r == Len(W1.requests)
        W2 == watchAll(W1, r, watches)
        firstResponseTimeout == Len(W.timers) + 1
        completeTimeout == Len(W.timers) + 2
        W3 == [W2 EXCEPT !.timers = @ \o
                 << [status |-> "armed", request |-> r, kind |-> "firstResponse"],
                    [status |-> "armed", request |-> r, kind |-> "complete"] >>]
    IN  setTimeoutIds(W3, r, firstResponseTimeout, completeTimeout)

\* The ceiling of a request cannot elapse while its first-response timer,
\* started at the same time with the shorter delay, is still armed.
timerOrder(tm, t) ==
    tm[t].kind = "complete" =>
        \A u \in DOMAIN tm :
            (tm[u].request = tm[t].request /\ tm[u].kind = "firstResponse") => tm[u].status # "armed"

\* A timer callback that calls onFail itself instead of request.timeout().
timerCallback_DirectFail(W, t) == reject(W, W.requests[W.timers[t].request].call)

RECURSIVE timeoutAll(_, _)
timeoutAll(W, r) == IF r = 0 THEN W ELSE timeoutAll(timeout(W, r), r - 1)

\* A timer callback that times out every request instead of its own.
timerCallback_All(W, t) == timeoutAll(W, Len(W.requests))

\* The callback both timers run: request.timeout().
timerCallback(W, t) == timeout(W, W.timers[t].request)

\* onRequestResponseNotification marking the request it finds Satisfied
\* itself, whatever state the request is in.
onRequestResponseNotification_Unguarded(W, message) ==
    LET request == find(W, message.context.metadata.EE_PAYLOAD_PATH)
    IN  IF request # 0
        THEN destroy([W EXCEPT !.requests[request].state = "Satisfied"],
                     message.context.metadata.EE_PAYLOAD_PATH)
        ELSE W

\* onRequestResponseNotification(message)
onRequestResponseNotification(W, message) ==
    LET request == find(W, message.context.metadata.EE_PAYLOAD_PATH)
    IN  IF request # 0
        THEN LET W1 == process(W, request, message)
             IN  IF isClosed(W1, request)
                 THEN destroy(W1, message.context.metadata.EE_PAYLOAD_PATH)
                 ELSE W1
        ELSE W

\* { ...obj }: a new object with the own properties of obj.
spread(obj) == [k \in DOMAIN obj |-> obj[k]]

\* nodeInfoUpdate keeping the fields of the previous snapshot the heartbeat
\* does not carry.
nodeInfoUpdate_Merge(h, info, t) ==
    LET node == info.EE_PAYLOAD_PATH[1]
        data == IF h[node] = <<>> THEN spread(info.DATA)
                ELSE [k \in DOMAIN h[node][1].data \cup DOMAIN info.DATA |->
                        IF k \in DOMAIN info.DATA THEN info.DATA[k] ELSE h[node][1].data[k]]
    IN  [h EXCEPT ![node] = <<[lastUpdate |-> t,
                               nodeTime |-> [date |-> info.EE_TIMESTAMP, utc |-> info.EE_TIMEZONE],
                               data |-> data]>>]

\* nodeInfoUpdate writing the snapshot of the heartbeat under every node.
nodeInfoUpdate_Everywhere(h, info, t) ==
    [node \in DOMAIN h |->
        <<[lastUpdate |-> t,
           nodeTime |-> [date |-> info.EE_TIMESTAMP, utc |-> info.EE_TIMEZONE],
           data |-> spread(info.DATA)]>>]

\* nodeInfoUpdate(info) at time t: the entry of the node is created if there
\* is none, then lastUpdate, nodeTime and data are assigned.
nodeInfoUpdate(h, info, t) ==
    LET path == info.EE_PAYLOAD_PATH
        nodeTime == [date |-> info.EE_TIMESTAMP, utc |-> info.EE_TIMEZONE]
        data == info.DATA
        entry == IF h[path[1]] = <<>>
                 THEN [lastUpdate |-> 0, nodeTime |-> nodeTime, data |-> data]
                 ELSE h[path[1]][1]
    IN  [h EXCEPT ![path[1]] = <<[entry EXCEPT !.lastUpdate = t,
                                               !.nodeTime = spread(nodeTime),
                                               !.data = spread(data)]>>]

\* nodeInfoUpdate(info) statement by statement: the caches after the entry
\* of the node was created if missing (its three fields null, written <<>>),
\* after lastUpdate, after nodeTime and after data were assigned.
nodeInfoUpdateStatements(h, info, t) ==
    LET path == info.EE_PAYLOAD_PATH
        nodeTime == [date |-> info.EE_TIMESTAMP, utc |-> info.EE_TIMEZONE]
        data == info.DATA
        created == IF h[path[1]] = <<>>
                   THEN [h EXCEPT ![path[1]] =
                           <<[lastUpdate |-> <<>>, nodeTime |-> <<>>, data |-> <<>>]>>]
                   ELSE h
        h1 == [created EXCEPT ![path[1]][1].lastUpdate = t]
        h2 == [h1 EXCEPT ![path[1]][1].nodeTime = spread(nodeTime)]
        h3 == [h2 EXCEPT ![path[1]][1].data = spread(data)]
    IN  <<created, h1, h2, h3>>

\* An emit placed before the assignment of data.
emitStateUpdate_BeforeData(h, info, t) == nodeInfoUpdateStatements(h, info, t)[3]

\* this.emit('state.update', ...): the cache a listener reads while it runs.
emitStateUpdate(h, info, t) == nodeInfoUpdateStatements(h, info, t)[4]

\* _checkNode(node): the node is in bootOptions.fleet and has a last-seen
\* timestamp in the universe.
checkNode(f, u, node) == node \in f /\ u[node] # 0

\* getNodeManager(node): the NodeManager of the node, <<>> for null.
getNodeManager(f, u, node) ==
    IF checkNode(f, u, node) THEN <<[manager |-> "NodeManager", node |-> node]>> ELSE <<>>

\* getNodeInfo(node): <<>> is null.
getNodeInfo(h, node) == h[node]

\* markNodeAsSeen(node, timestamp)
markNodeAsSeen(u, node, timestamp) == [u EXCEPT ![node] = timestamp]

(***************************************************************************)
(* NaeuralWebClient (src/src/web.client.js)                                *)
(***************************************************************************)
\* nodeState.data?.pipelines ?? null: <<>> is null.
pipelinesOf(nodeState) ==
    IF nodeState # <<>> /\ "pipelines" \in DOMAIN nodeState[1].data
    THEN <<nodeState[1].data["pipelines"]>>
    ELSE <<>>

\* _makeContext(path) throws a TypeError: the path names an instance, the
\* node has a snapshot, and the snapshot holds no pipelines
\* (pipelines[path[1]] on null).
makeContextThrows(h, path) ==
    /\ path[3] # Null /\ path[4] # Null
    /\ getNodeInfo(h, path[1]) # <<>>
    /\ pipelinesOf(getNodeInfo(h, path[1])) = <<>>

\* _makeContext(path): the pipeline context when the cache has the pipeline,
\* the instance context when the path names an instance (<<>> is null).
makeContext(h, path) ==
    LET pipelines == pipelinesOf(getNodeInfo(h, path[1]))
    IN  [pipeline |-> IF path[2] # Null /\ pipelines # <<>> /\ path[2] \in DOMAIN pipelines[1]
                      THEN <<path[2]>> ELSE <<>>,
         instance |-> IF path[3] # Null /\ path[4] # Null
                      THEN <<[name |-> path[4], signature |-> path[3]]>> ELSE <<>>]

\* _notificationsProcessor handing over only the node and pipeline of the path.
notificationsProcessor_PipelineOnly(W, message) ==
    onRequestResponseNotification(W,
        [context |-> [metadata |-> [EE_PAYLOAD_PATH |->
            Path(message.EE_PAYLOAD_PATH[1], message.EE_PAYLOAD_PATH[2], Null, Null)]]])

\* _notificationsProcessor(message): the context is made; the frame without
\* DATA becomes context.metadata and is handed to the state manager.  When
\* _makeContext throws, nothing is handed over.
notificationsProcessor(W, message) ==
    IF makeContextThrows(W.hb, message.EE_PAYLOAD_PATH) THEN W
    ELSE onRequestResponseNotification(W,
            [context |-> [metadata |-> [EE_PAYLOAD_PATH |-> message.EE_PAYLOAD_PATH]]])

RECURSIVE batchWatches(_, _)
batchWatches(node, payload) ==
    IF payload = <<>> THEN <<>>
    ELSE <<Path(node, Head(payload).NAME, Head(payload).SIGNATURE, Head(payload).INSTANCE_ID)>>
         \o batchWatches(node, Tail(payload))

\* publish pushing the watches of the action before the extra watches.
publishWatches_ActionFirst(node, message, extraWatches) ==
    (CASE message.ACTION = NODE_COMMAND_UPDATE_PIPELINE_INSTANCE ->
            <<Path(node, message.PAYLOAD[1].NAME, message.PAYLOAD[1].SIGNATURE,
                   message.PAYLOAD[1].INSTANCE_ID)>>
       [] message.ACTION \in {NODE_COMMAND_UPDATE_CONFIG, NODE_COMMAND_PIPELINE_COMMAND} ->
            <<Path(node, message.PAYLOAD[1].NAME, Null, Null)>>
       [] message.ACTION = NODE_COMMAND_ARCHIVE_CONFIG ->
            <<Path(node, message.PAYLOAD[1].NAME, Null, Null)>>
       [] message.ACTION = NODE_COMMAND_BATCH_UPDATE_PIPELINE_INSTANCE ->
            batchWatches(node, message.PAYLOAD)
       [] OTHER -> <<>>)
    \o extraWatches

\* The watches publish builds: the extra watches, then those of the action.
publishWatches(node, message, extraWatches) ==
    extraWatches \o
    CASE message.ACTION = NODE_COMMAND_UPDATE_PIPELINE_INSTANCE ->
           <<Path(node, message.PAYLOAD[1].NAME, message.PAYLOAD[1].SIGNATURE,
                  message.PAYLOAD[1].INSTANCE_ID)>>
      [] message.ACTION \in {NODE_COMMAND_UPDATE_CONFIG, NODE_COMMAND_PIPELINE_COMMAND} ->
           <<Path(node, message.PAYLOAD[1].NAME, Null, Null)>>
      [] message.ACTION = NODE_COMMAND_ARCHIVE_CONFIG ->
           <<Path(node, message.PAYLOAD[1].NAME, Null, Null)>>
      [] message.ACTION = NODE_COMMAND_BATCH_UPDATE_PIPELINE_INSTANCE ->
           batchWatches(node, message.PAYLOAD)
      [] OTHER -> <<>>

\* toSend copied from the message before SESSION_ID is set.
toSend_NoSession(node, message, sessionId) ==
    [ACTION |-> message.ACTION, PAYLOAD |-> message.PAYLOAD,
     INITIATOR_ID |-> Initiator, EE_ID |-> node, SESSION_ID |-> 0]

\* toSend = {...message} once INITIATOR_ID, EE_ID and SESSION_ID are set.
toSend(node, message, sessionId) ==
    [ACTION |-> message.ACTION, PAYLOAD |-> message.PAYLOAD,
     INITIATOR_ID |-> Initiator, EE_ID |-> node, SESSION_ID |-> sessionId]

NoToSend == toSend(Null, NoMessage, 0)

\* publish(node, message, extraWatches) up to the point where sign suspends.
publish(W, node, message, extraWatches) ==
    LET c == Len(W.calls) + 1
        watches == publishWatches(node, message, extraWatches)
        call == [node |-> node, message |-> message, watches |-> watches,
                 matched |-> [k \in DOMAIN watches |-> FALSE], request |-> 0,
                 late |-> FALSE,
                 pc |-> "signing", toSend |-> NoToSend, promise |-> "pending",
                 resolveCalls |-> 0, rejectCalls |-> 0]
        W0 == [W EXCEPT !.calls = Append(@, call)]
        W1 == registerMessage(W0, message, watches, c)
        request == Len(W1.requests)
    IN  IF message = NoMessage
        THEN [W EXCEPT !.calls = Append(@,
                 [call EXCEPT !.watches = <<>>, !.matched = <<>>, !.pc = "closed",
                              !.promise = "resolved", !.resolveCalls = 1])]
        ELSE [W1 EXCEPT !.calls[c].request = request,
                        !.calls[c].toSend = toSend(node, message, request)]

(***************************************************************************)
(* Direct calls of the library.  The outcome of a call is what it returned *)
(* or the error it threw; Null is null and Undefined is undefined.         *)
(***************************************************************************)
Undefined == "undefined"

Returns(v) == [threw |-> FALSE, value |-> v]

Throws(e) == [threw |-> TRUE, value |-> e]

Call(name, args, outcome) ==
    [call |-> name, args |-> args, threw |-> outcome.threw, value |-> outcome.value]

NoValue == <<>>

NoCall == Call("none", <<>>, Returns(Null))

(***************************************************************************)
(* Texts (src/src/helper.functions.js).  A text is the sequence of its     *)
(* characters.                                                             *)
(***************************************************************************)
MaxText == 3

\* The characters the texts are drawn from: a base64 digit, the two digits
\* that differ between the alphabets in both spellings, and the padding.
TextChars == {"A", "+", "/", "-", "_", "="}

RECURSIVE TextsOf(_)
TextsOf(len) ==
    IF len = 0 THEN { <<>> }
    ELSE TextsOf(len - 1) \cup
         { Append(t, c) : t \in { u \in TextsOf(len - 1) : Len(u) = len - 1 }, c \in TextChars }

Texts == TextsOf(MaxText)

\* str.replace(/c/g, d) for a character c
replaceAll(str, c, d) == [i \in DOMAIN str |-> IF str[i] = c THEN d ELSE str[i]]

\* str.replace(c, d) for a character c: the first occurrence only.
replaceFirst(str, c, d) ==
    [i \in DOMAIN str |-> IF str[i] = c /\ \A j \in 1..(i - 1) : str[j] # c THEN d ELSE str[i]]

\* urlSafeBase64ToBase64(urlSafeBase64)
urlSafeBase64ToBase64(urlSafeBase64) ==
    replaceAll(replaceAll(urlSafeBase64, "-", "+"), "_", "/")

\* base64ToUrlSafeBase64 without the g flag.
base64ToUrlSafeBase64_First(base64) ==
    replaceFirst(replaceFirst(base64, "+", "-"), "/", "_")

\* base64ToUrlSafeBase64(base64)
base64ToUrlSafeBase64(base64) ==
    replaceAll(replaceAll(base64, "+", "-"), "/", "_")


(***************************************************************************)
(* NaeuralBC (src/src/web.blockchain.js)                                   *)
(***************************************************************************)
\* _getHash(input).strHash: the digest of the canonical form of the input.
getHash(input) == <<"sha256", input>>

ADDR_PREFIX == <<"0", "x", "a", "i", "_">>

ALLOWED_PREFIXES == <<ADDR_PREFIX, <<"a", "i", "x", "p", "_">> >>

NON_DATA_FIELDS == {"EE_SIGN", "EE_SENDER", "EE_HASH"}

\* The key pairs an identity can be loaded from.
KeyPairs == {"k1", "k2", "k3"}

\* keyPair.getPublic(true, 'hex'): the compressed public key.  Binary data
\* is written as the sequence of its standard base64 digits: the key of k1
\* has digits that differ between the two alphabets; the URL-safe spelling
\* of the key of k2 contains the text aixp_, that of k3 the text 0xai_.
getPublic ==
    [k1 |-> <<"A", "g", "+", "/", "B">>,
     k2 |-> <<"A", "w", "a", "i", "x", "p", "/">>,
     k3 |-> <<"A", "g", "0", "x", "a", "i", "/">>]

\* Buffer.from(hex, 'hex').toString('base64'): the digits of the bytes.
toStringBase64(bytes) == bytes

\* compressPublicKeyObject(publicKey)
compressPublicKeyObject(publicKey) == base64ToUrlSafeBase64(toStringBase64(publicKey))

\* addressFromPublicKey(publicKey)
addressFromPublicKey(publicKey) == ADDR_PREFIX \o compressPublicKeyObject(publicKey)

\* this.compressedPublicKey, as loadIdentity caches it.
compressedPublicKey(key) == compressPublicKeyObject(getPublic[key])

\* getAddress()
getAddress(key) == ADDR_PREFIX \o compressedPublicKey(key)

\* _signHash(hash): the signature of the key pair over the digest.
signHash(hash, key) == [signer |-> key, digest |-> hash]

\* JSON.stringify(value): the text of the value.
JSONstringify(value) == <<"json", value>>

\* _prepareMessage(input, signatureB64, format): the input with EE_SIGN,
\* EE_SENDER and EE_HASH, as JSON text unless the format is 'object'.
prepareMessage(input, signatureB64, key, format) ==
    LET message == [ACTION |-> input.ACTION, PAYLOAD |-> input.PAYLOAD,
                    INITIATOR_ID |-> input.INITIATOR_ID, EE_ID |-> input.EE_ID,
                    SESSION_ID |-> input.SESSION_ID,
                    EE_SIGN |-> signatureB64,
                    EE_SENDER |-> getAddress(key),
                    EE_HASH |-> getHash(input)]
    IN  IF format = "json" THEN JSONstringify(message) ELSE message

\* sign(input, format = 'json')
sign(input, key) == prepareMessage(input, signHash(getHash(input), key), key, "json")

\* mqttConnection.publish(`lummetry/${node}/config`, signed)
configTopic(node) == <<"lummetry", node, "config">>

transportPublish(node, signed) == [topic |-> configTopic(node), payload |-> signed]

(***************************************************************************)
(* NaeuralBC called directly.  The publish path above takes the hash and   *)
(* the signature of a command as opaque values; here they are texts.  A    *)
(* JavaScript value is Obj(own), its own properties being texts written as *)
(* strings; Str(chars), a string that is not JSON; Num, a number; JSNull;  *)
(* or JSONText(value), the JSON text of a value.                           *)
(***************************************************************************)
Obj(own) == [type |-> "object", own |-> own]

Str(chars) == [type |-> "string", chars |-> chars]

Num == [type |-> "number"]

JSNull == [type |-> "null"]

JSONText(value) == [type |-> "json", value |-> value]

\* The property names of the characters of a string.
IndexNames == <<"0", "1">>

\* The own enumerable properties Object.assign and Object.entries read.
ownProperties(value) ==
    CASE value.type = "object" -> value.own
      [] value.type = "string" ->
           [name \in { IndexNames[i] : i \in DOMAIN value.chars } |->
              value.chars[CHOOSE i \in DOMAIN value.chars : IndexNames[i] = name]]
      [] OTHER -> <<>>

\* The characters of a text, as one string.
RECURSIVE join(_)
join(chars) == IF chars = <<>> THEN "" ELSE Head(chars) \o join(Tail(chars))

\* The property names of the model, in the order json-stable-stringify
\* sorts them.
FieldOrder == <<"0", "1", "COMMAND", "EE_HASH", "EE_SENDER", "EE_SIGN", "SERVER">>

RECURSIVE members(_, _, _)
members(own, i, separator) ==
    IF i > Len(FieldOrder) THEN ""
    ELSE IF FieldOrder[i] \in DOMAIN own
         THEN separator \o "\"" \o FieldOrder[i] \o "\":\"" \o own[FieldOrder[i]] \o "\""
                \o members(own, i + 1, ",")
         ELSE members(own, i + 1, separator)

\* stringify(obj) of json-stable-stringify: the members in key order.
stringify(own) == "{" \o members(own, 1, "") \o "}"

\* crypto.subtle.digest('SHA-256', text), no two texts having one digest.
sha256(text) == "sha256(" \o text \o ")"

\* _getHash(input): the digest stands for both strHash and binHash.
_getHash(input) ==
    CASE input.type = "object" -> Returns(sha256(stringify(input.own)))
      [] input.type = "string" -> Returns(sha256(join(input.chars)))
      [] OTHER -> Throws("Error: Unsupported input type")

\* options.k: the nonce of a signature, which shows in its last digit.
Nonces == {"A", "+"}

\* keyPair.sign(hashBuffer, options): r and s depend on the key, on what is
\* signed and on the nonce.
ecSign(msg, keyPair, k) == [rs |-> keyPair \o ":" \o msg \o ":" \o k, k |-> k]

\* signature.toDER(): the header, then r and s (one digit stands for all of
\* theirs but the last).
toDER(signature) == <<"M", signature.rs, signature.k>>

\* _signHash(hash): keyPair.sign on an undefined keyPair is a TypeError.
_signHash(hash, keyPair, k) ==
    IF keyPair = Null THEN Throws("TypeError")
    ELSE Returns(base64ToUrlSafeBase64(toStringBase64(toDER(ecSign(sha256(hash), keyPair, k)))))

\* One source of Object.assign written over an object.
assign(own, source) ==
    [name \in DOMAIN own \cup DOMAIN source |->
        IF name \in DOMAIN source THEN source[name] ELSE own[name]]

\* Object.assign(target, ...sources) on a heap of objects: the object
\* `target` refers to is written, the others are left alone.
RECURSIVE ObjectAssign(_, _, _)
ObjectAssign(heap, target, sources) ==
    IF sources = <<>> THEN heap
    ELSE ObjectAssign([heap EXCEPT ![target] = assign(@, Head(sources))], target, Tail(sources))

\* _prepareMessage with Object.assign(input, {...}): the fields are written
\* to the caller's object.
_prepareMessage_InPlace(heap, input, signatureB64, keyPair, format) ==
    LET fields == [EE_SIGN |-> signatureB64, EE_SENDER |-> getAddress(keyPair),
                   EE_HASH |-> _getHash(input).value]
        after == ObjectAssign(heap, "input", <<fields>>)
    IN  [heap |-> after,
         outcome |-> CASE format = "json" -> Returns(JSONText(Obj(after.input)))
                       [] format = "object" -> Returns(Obj(after.input))
                       [] OTHER -> Throws("Error: Unsupported format")]

\* _prepareMessage(input, signatureB64, format): heap.input is the caller's
\* object, heap.message the new object Object.assign fills.
_prepareMessage(heap, input, signatureB64, keyPair, format) ==
    LET fields == [EE_SIGN |-> signatureB64, EE_SENDER |-> getAddress(keyPair),
                   EE_HASH |-> _getHash(input).value]
        after == ObjectAssign([heap EXCEPT !.message = <<>>], "message", <<heap.input, fields>>)
    IN  [heap |-> after,
         outcome |-> CASE format = "json" -> Returns(JSONText(Obj(after.message)))
                       [] format = "object" -> Returns(Obj(after.message))
                       [] OTHER -> Throws("Error: Unsupported format")]

\* sign(input, format) with nonce k: the outcome, and the heap it leaves.
signInput(input, keyPair, format, k) ==
    LET heap == [input |-> ownProperties(input), message |-> <<>>]
        hash == _getHash(input)
        signatureB64 == _signHash(hash.value, keyPair, k)
    IN  IF hash.threw THEN [heap |-> heap, outcome |-> hash]
        ELSE IF signatureB64.threw THEN [heap |-> heap, outcome |-> signatureB64]
        ELSE _prepareMessage(heap, input, signatureB64.value, keyPair, format)

\* generateKeys(): this.ec is an EC instance, and calling it is a TypeError.
generateKeys == Throws("TypeError")

\* loadIdentity(options) with no options.key: the key pair after the call,
\* and the outcome.
loadIdentityWithoutKey(keyPair) ==
    IF generateKeys.threw
    THEN [keyPair |-> keyPair, outcome |-> generateKeys]
    ELSE [keyPair |-> generateKeys.value, outcome |-> Returns(Undefined)]

\* The text without the first occurrence of sub: str.replace(sub, '').
removeFirst(str, sub) ==
    LET at == { i \in 1..Len(str) : /\ i + Len(sub) - 1 <= Len(str)
                                    /\ SubSeq(str, i, i + Len(sub) - 1) = sub }
    IN  IF at = {} THEN str
        ELSE LET i == CHOOSE j \in at : \A m \in at : j <= m
             IN  SubSeq(str, 1, i - 1) \o SubSeq(str, i + Len(sub), Len(str))

\* _removeAddressPrefix(address): forEach over ALLOWED_PREFIXES.
_removeAddressPrefix(address) ==
    removeFirst(removeFirst(address, ALLOWED_PREFIXES[1]), ALLOWED_PREFIXES[2])

\* The compressed points of the curve.
CurvePoints == { getPublic[key] : key \in KeyPairs }

\* atob(standardB64): the bytes; '-' and '_' are no base64 digits.
atob(text) ==
    IF \E i \in DOMAIN text : text[i] \in {"-", "_"} THEN Throws("InvalidCharacterError")
    ELSE Returns(text)

\* ec.keyFromPublic(hexString, 'hex'): decodePoint throws on bytes that are
\* no point of the curve.
keyFromPublic(bytes) == IF bytes \in CurvePoints THEN Returns(bytes) ELSE Throws("Error")

\* addressToECPublicKey(address)
addressToECPublicKey(address) ==
    LET pkB64 == _removeAddressPrefix(address)
        standardB64 == urlSafeBase64ToBase64(pkB64)
        binaryString == atob(standardB64)
    IN  IF binaryString.threw THEN binaryString ELSE keyFromPublic(binaryString.value)

\* ec.verify(hash, signature, publicKeyObj): bytes that are no DER signature
\* throw; a signature is good when the key pair of the public key made it
\* over the hash.
ecVerify(msg, bytes, publicKeyObj) ==
    IF Len(bytes) # 3 \/ bytes[1] # "M" THEN Throws("Error: Signature without r or s")
    ELSE Returns(\E key \in KeyPairs, k \in Nonces :
                    getPublic[key] = publicKeyObj /\ bytes = toDER(ecSign(msg, key, k)))

\* JSON.parse(text)
JSONparse(text) == IF text.type = "json" THEN Returns(text.value) ELSE Throws("SyntaxError")

\* verify(fullJSONMessage)
verify(fullJSONMessage) ==
    LET parsed == JSONparse(fullJSONMessage)
        objReceived == ownProperties(parsed.value)
        pkB64 == IF "EE_SENDER" \in DOMAIN objReceived /\ objReceived.EE_SENDER # <<>>
                 THEN _removeAddressPrefix(objReceived.EE_SENDER) ELSE <<>>
        objData == [name \in DOMAIN objReceived \ NON_DATA_FIELDS |-> objReceived[name]]
        hashHex == sha256(stringify(objData))
        hashResult == "EE_HASH" \in DOMAIN objReceived /\ hashHex = objReceived.EE_HASH
        publicKeyObj == addressToECPublicKey(pkB64)
        signatureResult ==
            ecVerify(sha256(hashHex), urlSafeBase64ToBase64(objReceived.EE_SIGN),
                     publicKeyObj.value)
    IN  IF parsed.threw THEN Returns(FALSE)
        ELSE IF parsed.value.type = "null" THEN Throws("TypeError")
        ELSE IF pkB64 = <<>> THEN Returns(FALSE)
        ELSE IF "EE_SIGN" \notin DOMAIN objReceived THEN Throws("TypeError")
        ELSE IF publicKeyObj.threw THEN publicKeyObj
        ELSE IF signatureResult.threw THEN signatureResult
        ELSE Returns(hashResult /\ signatureResult.value)


(***************************************************************************)
(* The inbound pipeline of connectUpstream (src/src/web.client.js).  A     *)
(* frame arrives as bytes <<"utf8", text>>; a text is <<"json", message>>  *)
(* or is not JSON.  A message is a record [EE_PAYLOAD_PATH, EE_FORMATTER,  *)
(* EE_EVENT_TYPE, EE_TIMESTAMP, EE_TIMEZONE, DATA]; NoPath and Null stand  *)
(* for an absent EE_PAYLOAD_PATH and an absent EE_FORMATTER.  The          *)
(* formatters and the DATA processors (./formatters, ./processors) are not *)
(* available: a formatter keeps the fields above, a processor decodes      *)
(* DATA.                                                                   *)
(***************************************************************************)
MESSAGE_TYPE_HEARTBEAT == "heartbeat"
MESSAGE_TYPE_NOTIFICATION == "notification"
MESSAGE_TYPE_PAYLOAD == "payload"
ZxAI_SUPERVISOR_PAYLOAD == "ZxAI_SUPERVISOR_PAYLOAD"

NoPath == <<>>

\* The formatters registered by the constructor.
RegisteredFormatters == {"raw", "0xai1.0"}

\* Property names the formatters object inherits from Object.prototype.
InheritedProperties == {"constructor"}

\* String.prototype.toLowerCase on the strings of the model.
toLowerCase(str) ==
    CASE str = "RAW" -> "raw"
      [] str = "ADMIN_PIPELINE" -> "admin_pipeline"
      [] OTHER -> str

\* this.formatters[name]: a formatter, an inherited property, or undefined.
formatterLookup(name) ==
    IF name \in RegisteredFormatters THEN "formatter"
    ELSE IF name \in InheritedProperties THEN "inherited"
    ELSE "undefined"

\* _toString(message[1])
toString(bytes) == bytes[2]

\* JSON.parse(text) throws a SyntaxError.
parseThrows(text) == text[1] # "json"

\* _toJSON(message)
toJSON(text) == text[2]

\* _messageIsSigned(message)
messageIsSigned(message) == TRUE

\* _messageIsFromEdgeNode(message): !!message.EE_PAYLOAD_PATH
messageIsFromEdgeNode(message) == message.EE_PAYLOAD_PATH # NoPath

\* _messageFromControlledFleet(message)
messageFromControlledFleet(f, message) == message.EE_PAYLOAD_PATH[1] \in f

\* The test of _processSupervisorMessage.
isSupervisorMessage(message) ==
    /\ message.EE_PAYLOAD_PATH[2] # Null
    /\ toLowerCase(message.EE_PAYLOAD_PATH[2]) = "admin_pipeline"

\* _messageHasKnownFormat(message)
messageHasKnownFormat(message) ==
    \/ message.EE_FORMATTER = ""
    \/ message.EE_FORMATTER = Null
    \/ formatterLookup(toLowerCase(message.EE_FORMATTER)) # "undefined"

\* _decodeToInternalFormat(message) throws a TypeError: the value of
\* this.formatters[format] is undefined, or has no function `in`.
decodeThrows(message) ==
    LET format == IF message.EE_FORMATTER = Null THEN "raw" ELSE message.EE_FORMATTER
    IN  formatterLookup(format) # "formatter"

\* The `in` function of a formatter.
formatterIn(message) ==
    [EE_PAYLOAD_PATH |-> message.EE_PAYLOAD_PATH, EE_FORMATTER |-> message.EE_FORMATTER,
     EE_EVENT_TYPE |-> message.EE_EVENT_TYPE, EE_TIMESTAMP |-> message.EE_TIMESTAMP,
     EE_TIMEZONE |-> message.EE_TIMEZONE, DATA |-> message.DATA]

\* processHeartbeat, notificationProcessor, payloadProcessor: DATA decoded.
processHeartbeat(data) == data[2]

notificationProcessor(data) == data[2]

payloadProcessor(data) == data[2]

\* _decodeToInternalFormat(message), when it does not throw.
decodeToInternalFormat(message) ==
    LET internalMessage == formatterIn(message)
    IN  CASE internalMessage.EE_EVENT_TYPE = MESSAGE_TYPE_HEARTBEAT ->
               [internalMessage EXCEPT !.DATA = processHeartbeat(@)]
          [] internalMessage.EE_EVENT_TYPE = MESSAGE_TYPE_NOTIFICATION ->
               [internalMessage EXCEPT !.DATA = notificationProcessor(@)]
          [] internalMessage.EE_EVENT_TYPE = MESSAGE_TYPE_PAYLOAD ->
               [internalMessage EXCEPT !.DATA = payloadProcessor(@)]
          [] OTHER -> internalMessage

\* The frames of the runs.
Message(path, formatter, type, timestamp, data) ==
    [EE_PAYLOAD_PATH |-> path, EE_FORMATTER |-> formatter, EE_EVENT_TYPE |-> type,
     EE_TIMESTAMP |-> timestamp, EE_TIMEZONE |-> "utc", DATA |-> <<"encoded", data>>]

Bytes(message) == <<"utf8", <<"json", message>> >>

NotJSON == <<"utf8", <<"not json">> >>

NoData == [SESSION_ID |-> Null]

\* Heartbeat data with pipelines, and heartbeat data with fewer fields.
FullData == [pipelines |-> [p1 |-> [s1 |-> {"i1"}]], version |-> "v1", uptime |-> "u1"]

PartialData == [version |-> "v2"]

Notice(path, formatter) == Message(path, formatter, MESSAGE_TYPE_NOTIFICATION, "t0", NoData)

\* <<channel, bytes>>
InboundFrames ==
    { <<"notifications", NotJSON>>,
      <<"notifications", Bytes(Notice(Path("n1", "p1", Null, Null), Null))>>,
      <<"notifications", Bytes(Notice(Path("n1", "p1", "s1", "i1"), Null))>>,
      <<"notifications", Bytes(Notice(Path("n2", "p1", Null, Null), Null))>>,
      <<"notifications", Bytes(Notice(Path("n1", "p1", Null, Null), "unknown"))>>,
      <<"notifications", Bytes(Notice(Path("n1", "p1", Null, Null), "constructor"))>>,
      <<"notifications", Bytes(Notice(NoPath, Null))>>,
      <<"payloads", Bytes(Message(Path("n2", "admin_pipeline", "net_mon_01", "i1"), Null,
                                  MESSAGE_TYPE_PAYLOAD, "t0", NoData))>>,
      <<"payloads", Bytes(Message(Path("n1", "p1", "s1", "i1"), Null,
                                  MESSAGE_TYPE_PAYLOAD, "t0", NoData))>>,
      <<"heartbeats", Bytes(Message(Path("n1", Null, Null, Null), Null,
                                    MESSAGE_TYPE_HEARTBEAT, "t1", FullData))>>,
      <<"heartbeats", Bytes(Message(Path("n1", Null, Null, Null), Null,
                                    MESSAGE_TYPE_HEARTBEAT, "t2", PartialData))>> }

(***************************************************************************)
(* The lookups of StateManager (src/unnamed/part_001).  A decoded          *)
(* heartbeat carries data.pipelines: pipeline id -> [config, plugins]; a   *)
(* plugin map is written as the sequence of its entries [signature,        *)
(* instances] in key order, instances being instance id -> [config].  A    *)
(* field that is missing is not in the DOMAIN of its record.               *)
(***************************************************************************)
\* obj[key] !== undefined: own properties and those of Object.prototype.
hasProperty(obj, key) == key \in DOMAIN obj \/ key \in InheritedProperties

\* obj[key] for a key that hasProperty: an inherited property is a function
\* object with none of the fields looked up here.
property(obj, key) == IF key \in DOMAIN obj THEN obj[key] ELSE <<>>

\* obj.field, Undefined when the field is missing.
field(obj, name) == IF name \in DOMAIN obj THEN obj[name] ELSE Undefined

\* getRunningPipelineConfig(node, pipelineId)
getRunningPipelineConfig(h, node, pipelineId) ==
    LET nodeInfo == getNodeInfo(h, node)
        pipelines == pipelinesOf(nodeInfo)
    IN  IF pipelines # <<>> /\ hasProperty(pipelines[1], pipelineId)
        THEN Returns(field(property(pipelines[1], pipelineId), "config"))
        ELSE Returns(Null)

\* The for loop of getRunningInstanceConfig over Object.keys(plugins).
RECURSIVE instanceConfig(_, _)
instanceConfig(plugins, instanceId) ==
    IF plugins = <<>> THEN Returns(Null)
    ELSE IF instanceId \in DOMAIN Head(plugins).instances
         THEN Returns(field(Head(plugins).instances[instanceId], "config"))
         ELSE instanceConfig(Tail(plugins), instanceId)

\* getRunningInstanceConfig(node, pipelineId, instanceId): Object.keys throws
\* a TypeError when the pipeline has no plugins.
getRunningInstanceConfig(h, node, pipelineId, instanceId) ==
    LET nodeInfo == getNodeInfo(h, node)
        pipelines == pipelinesOf(nodeInfo)
    IN  IF pipelines # <<>> /\ hasProperty(pipelines[1], pipelineId)
        THEN IF "plugins" \in DOMAIN property(pipelines[1], pipelineId)
             THEN instanceConfig(property(pipelines[1], pipelineId).plugins, instanceId)
             ELSE Throws("TypeError")
        ELSE Returns(Null)

Plugin(signature, instances) == [signature |-> signature, instances |-> instances]

\* The data of the heartbeats a node may have sent.
HeartbeatData ==
    { [version |-> "v1"],
      [pipelines |-> [p2 |-> [config |-> "c2", plugins |-> <<>>]]],
      [pipelines |-> [p1 |-> [config |-> "c1",
                              plugins |-> <<Plugin("s1", [i1 |-> [config |-> "c11"]])>>]]],
      [pipelines |-> [p1 |-> [config |-> "c1",
                              plugins |-> <<Plugin("s1", [i2 |-> [config |-> "c12"]]),
                                            Plugin("s2", [i1 |-> [config |-> "c21"]])>>]]],
      [pipelines |-> [p1 |-> [config |-> "c1"]]],
      [pipelines |-> [p1 |-> [plugins |-> <<Plugin("s1", [i1 |-> [config |-> "c11"]])>>]]],
      [pipelines |-> [p1 |-> [config |-> "c1",
                              plugins |-> <<Plugin("s1", [i1 |-> [state |-> "on"]])>>]]] }

Heartbeat(node, data) ==
    [EE_PAYLOAD_PATH |-> Path(node, Null, Null, Null), EE_TIMESTAMP |-> "t0",
     EE_TIMEZONE |-> "utc", DATA |-> data]

\* The caches nodeInfoUpdate leaves after no heartbeat, or one of n1.
CacheStates ==
    { [n \in Nodes |-> <<>>] } \cup
    { nodeInfoUpdate([n \in Nodes |-> <<>>], Heartbeat("n1", d), 1) : d \in HeartbeatData }

PipelineIds == Pipelines \cup InheritedProperties

InstanceIds == {"i1", "i2"}


(***************************************************************************)
(* The state machine                                                       *)
(***************************************************************************)
World == Bundle(requests, timers, calls, index, hb)

Commit(W) ==
    /\ requests' = W.requests
    /\ timers' = W.timers
    /\ calls' = W.calls
    /\ index' = W.index

Init ==
    /\ identity = Null
    /\ calls = <<>>
    /\ requests = <<>>
    /\ index = [n \in Nodes |-> 0]
    /\ timers = <<>>
    /\ outbound = {}
    /\ fleet = Nodes
    /\ hb = [n \in Nodes |-> <<>>]
    /\ universe = [n \in Nodes |-> 0]
    /\ now = 0
    /\ streams = [ch \in Channels |-> [status |-> "open", buffer |-> <<>>, error |-> <<>>]]
    /\ supervisor = {}
    /\ dispatched = [ch \in Channels |-> <<>>]
    /\ events = {}
    /\ caller = NoValue
    /\ returned = NoCall

\* loadIdentity(options)
LoadIdentity(k) ==
    /\ identity' = k
    /\ UNCHANGED <<direct, calls, requests, index, timers, outbound, inbound>>

\* A call of publish, up to the suspension in sign.
Publish(node, message, extraWatches) ==
    /\ Commit(publish(World, node, message, extraWatches))
    /\ UNCHANGED <<direct, identity, outbound, inbound>>

\* sign resolves: the envelope goes to the transport; a command without
\* watches is resolved.
SignResolved(c) ==
    /\ c \in DOMAIN calls
    /\ calls[c].pc = "signing"
    /\ identity # Null
    /\ outbound' = outbound \cup
                     {transportPublish(calls[c].node, sign(calls[c].toSend, identity))}
    /\ LET W == [World EXCEPT !.calls[c].pc = "sent"]
       IN  Commit(IF Len(calls[c].watches) = 0 THEN resolve(W, c) ELSE W)
    /\ UNCHANGED <<direct, identity, inbound>>

\* sign rejects (no key pair): the then-callback never runs.
SignRejected(c) ==
    /\ c \in DOMAIN calls
    /\ calls[c].pc = "signing"
    /\ identity = Null
    /\ calls' = [calls EXCEPT ![c].pc = "signFailed"]
    /\ UNCHANGED <<direct, identity, requests, index, timers, outbound, inbound>>

\* A notification frame reaches _notificationsProcessor (nothing happens when
\* find returns no request).  Two records are kept per publish call c, by
\* comparing the frame with the watches publish built, position by
\* position: calls[c].matched[k], that a frame equal to watch k in every
\* non-null position was handed to the Pending request of c; calls[c].late,
\* that a frame equal to every watch of c in every non-null position was
\* handed to the request of c after it had timed out.
notificationStep(path) ==
    LET W == notificationsProcessor(World, [EE_PAYLOAD_PATH |-> path])
        r == index[path[1]]
        c == IF r = 0 THEN 0 ELSE requests[r].call
        equal(k) == \A j \in 1..4 : calls[c].watches[k][j] = Null \/ calls[c].watches[k][j] = path[j]
    IN  CASE r # 0 /\ requests[r].state = "Pending" ->
               [W EXCEPT !.calls[c].matched = [k \in DOMAIN @ |-> @[k] \/ equal(k)]]
          [] r # 0 /\ requests[r].state = "TimedOut" ->
               [W EXCEPT !.calls[c].late =
                  @ \/ \A k \in DOMAIN calls[c].watches : equal(k)]
          [] OTHER -> W

Notification(path) ==
    /\ index[path[1]] # 0
    /\ Commit(notificationStep(path))
    /\ UNCHANGED <<direct, identity, outbound, inbound>>

\* A timer elapses.  Both timers of a request are started together; the
\* ceiling (TIMEOUT_MAX_REQUEST_TIME) elapses after the first-response window
\* (TIMEOUT_TO_FIRST_RESPONSE).
TimerFire(t) ==
    /\ t \in DOMAIN timers
    /\ timers[t].status = "armed"
    /\ timerOrder(timers, t)
    /\ Commit(timerCallback([World EXCEPT !.timers[t].status = "fired"], t))
    /\ UNCHANGED <<direct, identity, outbound, inbound>>

NextWithin(max) ==
    \/ \E k \in Keys : LoadIdentity(k)
    \/ \E a \in PublishArgs : Len(calls) < max /\ Publish(a[1], a[2], a[3])
    \/ \E c \in 1..max : SignResolved(c)
    \/ \E c \in 1..max : SignRejected(c)
    \/ \E p \in NotificationPaths : Notification(p)
    \/ \E t \in 1..(2 * max) : TimerFire(t)

Next == NextWithin(MaxPublish)

Spec == Init /\ [][Next]_vars

\* An armed timer that is not cleared elapses.
FairSpec ==
    /\ Init
    /\ [][NextWithin(MaxFairPublish)]_vars
    /\ \A t \in 1..(2 * MaxFairPublish) : WF_vars(TimerFire(t))

(***************************************************************************)
(* The client with its inbound channels.  A frame is taken through the     *)
(* synchronous stages of the pipeline when it arrives; concatMap then      *)
(* holds it until the decodes of the frames before it have completed.      *)
(***************************************************************************)
\* Number of frames arriving in a run.
MaxFrames == 2

\* Number of publish calls in a run with inbound channels.
MaxRouterPublish == 1

Fleets == {{"n1"}, {"n1", "n2"}}

RouterPublishArgs == { <<"n1", UpdateConfig, <<>> >>, <<"n2", UpdateConfig, <<>> >> }

\* An error notification reaches the subscriber: the subscription ends and
\* what concatMap holds is discarded.
streamError(st, ch, error) ==
    [st EXCEPT ![ch] = [status |-> "errored", buffer |-> <<>>, error |-> error]]

\* An operator that hands on the frame that arrived last.
concatMap_Latest(buffer) ==
    [next |-> buffer[Len(buffer)], rest |-> SubSeq(buffer, 1, Len(buffer) - 1)]

\* concatMap: the frame whose decode completes is the one that arrived first.
concatMap(buffer) == [next |-> Head(buffer), rest |-> Tail(buffer)]

Event(name, node, seq, controlled) ==
    [name |-> name, node |-> node, seq |-> seq, controlled |-> controlled]

RouterInit ==
    /\ identity \in Keys
    /\ calls = <<>>
    /\ requests = <<>>
    /\ index = [n \in Nodes |-> 0]
    /\ timers = <<>>
    /\ outbound = {}
    /\ fleet = {"n1"}
    /\ hb = [n \in Nodes |-> <<>>]
    /\ universe = [n \in Nodes |-> 0]
    /\ now = 0
    /\ streams = [ch \in Channels |-> [status |-> "open", buffer |-> <<>>, error |-> <<>>]]
    /\ supervisor = {}
    /\ dispatched = [ch \in Channels |-> <<>>]
    /\ events = {}
    /\ caller = NoValue
    /\ returned = NoCall

\* setFleet(fleet)
SetFleet(f) ==
    /\ f # fleet
    /\ fleet' = f
    /\ UNCHANGED <<direct, identity, calls, requests, index, timers, outbound,
                   hb, universe, now, streams, supervisor, dispatched, events>>

\* A 'message' event of the connection of channel ch: _toString, _messageIsSigned,
\* _toJSON, _messageIsFromEdgeNode, _processSupervisorMessage,
\* _messageFromControlledFleet, _messageHasKnownFormat, and the hand-over to
\* concatMap.  An errored stream no longer listens.
FrameArrives(ch, bytes) ==
    LET text == toString(bytes)
        message == toJSON(text)
        node == message.EE_PAYLOAD_PATH[1]
        passes == messageFromControlledFleet(fleet, message) /\ messageHasKnownFormat(message)
    IN  /\ now' = now + 1
        /\ IF streams[ch].status # "open" \/ ~messageIsSigned(text)
           THEN UNCHANGED <<universe, streams, supervisor>>
           ELSE IF parseThrows(text)
           THEN /\ streams' = streamError(streams, ch, <<"SyntaxError">>)
                /\ UNCHANGED <<universe, supervisor>>
           ELSE IF ~messageIsFromEdgeNode(message)
           THEN UNCHANGED <<universe, streams, supervisor>>
           ELSE /\ universe' = markNodeAsSeen(universe, node, now')
                /\ supervisor' =
                      IF isSupervisorMessage(message) /\ messageHasKnownFormat(message)
                      THEN supervisor \cup
                             {[seq |-> now', message |-> message,
                               controlled |-> messageFromControlledFleet(fleet, message)]}
                      ELSE supervisor
                /\ streams' =
                      IF passes
                      THEN [streams EXCEPT ![ch].buffer =
                              Append(@, [seq |-> now', message |-> message,
                                         queued |-> streams[ch].buffer # <<>>])]
                      ELSE streams
        /\ UNCHANGED <<direct, identity, calls, requests, index, timers, outbound,
                       fleet, hb, dispatched, events>>

\* The decode of the first frame concatMap holds on channel ch completes:
\* the internal message goes to the processor subscribed to the channel
\* (_heartbeatProcessor, _notificationsProcessor, _payloadsProcessor); a
\* decode that throws ends the stream.
DecodeDone(ch) ==
    /\ streams[ch].status = "open"
    /\ streams[ch].buffer # <<>>
    /\ LET head == concatMap(streams[ch].buffer).next
           rest == concatMap(streams[ch].buffer).rest
           format == IF head.message.EE_FORMATTER = Null THEN "raw" ELSE head.message.EE_FORMATTER
           entry == [seq |-> head.seq, queued |-> head.queued,
                     timestamp |-> head.message.EE_TIMESTAMP]
           internal == decodeToInternalFormat(head.message)
           path == head.message.EE_PAYLOAD_PATH
           context == makeContext(hb, path)
       IN  \/ /\ decodeThrows(head.message)
              /\ streams' = streamError(streams, ch, <<"TypeError", format>>)
              /\ UNCHANGED <<calls, requests, index, timers, hb, dispatched, events>>
           \/ /\ ~decodeThrows(head.message)
              /\ ch = "heartbeats"
              /\ hb' = nodeInfoUpdate(hb, internal, now)
              /\ events' = events \cup {Event("state.update", path[1], head.seq, TRUE)}
              /\ streams' = [streams EXCEPT ![ch].buffer = rest]
              /\ dispatched' = [dispatched EXCEPT ![ch] = Append(@, entry)]
              /\ UNCHANGED <<calls, requests, index, timers>>
           \/ /\ ~decodeThrows(head.message)
              /\ ch = "notifications"
              /\ Commit(notificationStep(path))
              /\ streams' = [streams EXCEPT ![ch].buffer = rest]
              /\ dispatched' = [dispatched EXCEPT ![ch] = Append(@, entry)]
              /\ UNCHANGED <<hb, events>>
           \/ /\ ~decodeThrows(head.message)
              /\ ch = "payloads"
              /\ events' =
                    IF makeContextThrows(hb, path) \/ context.instance = <<>>
                    THEN events
                    ELSE events \cup {Event(context.instance[1].signature, path[1], head.seq, TRUE)}
              /\ streams' = [streams EXCEPT ![ch].buffer = rest]
              /\ dispatched' = [dispatched EXCEPT ![ch] = Append(@, entry)]
              /\ UNCHANGED <<calls, requests, index, timers, hb>>
    /\ UNCHANGED <<direct, identity, outbound, fleet, universe, now, supervisor>>

\* The decode started by _processSupervisorMessage completes: the supervisor
\* event is emitted, unless the decode or _makeContext threw.
SupervisorDecoded(e) ==
    /\ e \in supervisor
    /\ supervisor' = supervisor \ {e}
    /\ events' =
          IF decodeThrows(e.message) \/ makeContextThrows(hb, e.message.EE_PAYLOAD_PATH)
          THEN events
          ELSE events \cup {Event(ZxAI_SUPERVISOR_PAYLOAD, e.message.EE_PAYLOAD_PATH[1],
                                  e.seq, e.controlled)}
    /\ UNCHANGED <<direct, identity, calls, requests, index, timers, outbound,
                   fleet, hb, universe, now, streams, dispatched>>

RouterNextWithin(maxFrames, maxPublish) ==
    \/ \E f \in Fleets : SetFleet(f)
    \/ \E a \in RouterPublishArgs : Len(calls) < maxPublish /\ Publish(a[1], a[2], a[3])
    \/ \E c \in 1..maxPublish : SignResolved(c)
    \/ \E fr \in InboundFrames : now < maxFrames /\ FrameArrives(fr[1], fr[2])
    \/ \E ch \in Channels : DecodeDone(ch)
    \/ \E e \in supervisor : SupervisorDecoded(e)

RouterNext == RouterNextWithin(MaxFrames, MaxRouterPublish)

RouterSpec == RouterInit /\ [][RouterNext]_vars

(***************************************************************************)
(* The lookups of StateManager, called on the caches a node's heartbeats   *)
(* can leave.                                                              *)
(***************************************************************************)
Quiet ==
    /\ calls = <<>>
    /\ requests = <<>>
    /\ index = [n \in Nodes |-> 0]
    /\ timers = <<>>
    /\ outbound = {}
    /\ fleet = Nodes
    /\ universe = [n \in Nodes |-> 0]
    /\ now = 0
    /\ streams = [ch \in Channels |-> [status |-> "open", buffer |-> <<>>, error |-> <<>>]]
    /\ supervisor = {}
    /\ dispatched = [ch \in Channels |-> <<>>]
    /\ events = {}

LookupInit ==
    /\ Quiet
    /\ identity = Null
    /\ hb \in CacheStates
    /\ caller = NoValue
    /\ returned = NoCall

UnchangedButReturned ==
    UNCHANGED <<caller, identity, calls, requests, index, timers, outbound, inbound>>

GetNodeInfo(node) ==
    /\ returned' = Call("getNodeInfo", <<node>>, Returns(getNodeInfo(hb, node)))
    /\ UnchangedButReturned

GetRunningPipelineConfig(node, pipelineId) ==
    /\ returned' = Call("getRunningPipelineConfig", <<node, pipelineId>>,
                        getRunningPipelineConfig(hb, node, pipelineId))
    /\ UnchangedButReturned

GetRunningInstanceConfig(node, pipelineId, instanceId) ==
    /\ returned' = Call("getRunningInstanceConfig", <<node, pipelineId, instanceId>>,
                        getRunningInstanceConfig(hb, node, pipelineId, instanceId))
    /\ UnchangedButReturned

LookupNext ==
    \/ \E n \in Nodes : GetNodeInfo(n)
    \/ \E n \in Nodes, p \in PipelineIds : GetRunningPipelineConfig(n, p)
    \/ \E n \in Nodes, p \in PipelineIds, i \in InstanceIds : GetRunningInstanceConfig(n, p, i)

LookupSpec == LookupInit /\ [][LookupNext]_vars


(***************************************************************************)
(* The base64 helpers, called on a text of up to MaxText characters.        *)
(***************************************************************************)
CodecInit ==
    /\ Quiet
    /\ identity = Null
    /\ hb = [n \in Nodes |-> <<>>]
    /\ caller \in Texts
    /\ returned = NoCall

UrlSafeBase64ToBase64 ==
    /\ returned' = Call("urlSafeBase64ToBase64", <<caller>>, Returns(urlSafeBase64ToBase64(caller)))
    /\ UnchangedButReturned

Base64ToUrlSafeBase64 ==
    /\ returned' = Call("base64ToUrlSafeBase64", <<caller>>, Returns(base64ToUrlSafeBase64(caller)))
    /\ UnchangedButReturned

CodecNext ==
    \/ UrlSafeBase64ToBase64
    \/ Base64ToUrlSafeBase64

CodecSpec == CodecInit /\ [][CodecNext]_vars


(***************************************************************************)
(* NaeuralBC called directly: a caller holds a value, passes it to sign,   *)
(* verify or the address functions, and may take what the call returned as *)
(* its next argument.                                                      *)
(***************************************************************************)
Formats == {"json", "object"}

SignInputs ==
    { Obj([SERVER |-> "gigi", COMMAND |-> "get"]),
      Obj([SERVER |-> "gigi", EE_SENDER |-> "me"]),
      Str(<<"a", "b">>),
      Num }

\* The envelope sign returns for the first input under key pair k1.
Envelope == signInput(Obj([SERVER |-> "gigi", COMMAND |-> "get"]), "k1", "object", "A").outcome.value.own

Without(own, name) == [n \in DOMAIN own \ {name} |-> own[n]]

\* Texts that are no signed envelope: not JSON, JSON that is no object, an
\* envelope without one of the three fields, a signature that is no DER, an
\* address that is no point of the curve.
MalformedTexts ==
    { Str(<<"a", "b">>), JSONText(JSNull), JSONText(Num) } \cup
    { JSONText(Obj(Without(Envelope, name))) : name \in NON_DATA_FIELDS } \cup
    { JSONText(Obj([Envelope EXCEPT !.EE_SIGN = <<"A">>])),
      JSONText(Obj([Envelope EXCEPT !.EE_SENDER = ADDR_PREFIX \o <<"A">>])) }

Key(bytes) == [type |-> "key", bytes |-> bytes]

Address(chars) == [type |-> "address", chars |-> chars]

\* The addresses of the points under either recognized prefix.
Addresses ==
    { Address(ALLOWED_PREFIXES[i] \o compressPublicKeyObject(pk)) :
        i \in DOMAIN ALLOWED_PREFIXES, pk \in CurvePoints }

\* The text with character i replaced by c.
changeAt(chars, i, c) == [chars EXCEPT ![i] = c]

\* The envelopes that differ from an envelope in one character of EE_SIGN
\* or of EE_SENDER, in EE_HASH, or in one data field.
changesOf(chars) ==
    { changeAt(chars, at[1], at[2]) :
        at \in { ic \in (DOMAIN chars) \X TextChars : ic[2] # chars[ic[1]] } }

OneCharChanges(own) ==
    { [own EXCEPT !.EE_SIGN = changed] : changed \in changesOf(own.EE_SIGN) } \cup
    { [own EXCEPT !.EE_SENDER = changed] : changed \in changesOf(own.EE_SENDER) } \cup
    { [own EXCEPT !.EE_HASH = @ \o "0"] } \cup
    { [own EXCEPT ![name] = @ \o "x"] : name \in DOMAIN own \ NON_DATA_FIELDS }

CryptoInit ==
    /\ Quiet
    /\ identity = Null
    /\ hb = [n \in Nodes |-> <<>>]
    /\ caller \in SignInputs \cup MalformedTexts \cup { Key(pk) : pk \in CurvePoints } \cup Addresses
    /\ returned = NoCall

UnchangedButDirect ==
    UNCHANGED <<calls, requests, index, timers, outbound, inbound>>

\* loadIdentity(options) without options.key
LoadIdentityWithoutKey ==
    /\ identity' = loadIdentityWithoutKey(identity).keyPair
    /\ returned' = Call("loadIdentity", <<>>, loadIdentityWithoutKey(identity).outcome)
    /\ UNCHANGED caller
    /\ UnchangedButDirect

\* sign(caller, format), the signature made with nonce k
Sign(format, k) ==
    /\ caller.type \in {"object", "string", "number"}
    /\ LET done == signInput(caller, identity, format, k)
       IN  /\ returned' = Call("sign", <<caller, format>>, done.outcome)
           /\ caller' = IF caller.type = "object" THEN Obj(done.heap.input) ELSE caller
    /\ UNCHANGED identity
    /\ UnchangedButDirect

\* The caller takes the JSON envelope sign returned as its next argument.
Hold ==
    /\ returned.call = "sign"
    /\ ~returned.threw
    /\ returned.value.type = "json"
    /\ caller' = returned.value
    /\ UNCHANGED <<identity, returned>>
    /\ UnchangedButDirect

\* verify(caller)
Verify ==
    /\ caller.type \in {"json", "string"}
    /\ returned' = Call("verify", <<caller>>, verify(caller))
    /\ UNCHANGED <<identity, caller>>
    /\ UnchangedButDirect

\* One character of the envelope verify has just accepted is changed.
Change ==
    /\ returned.call = "verify"
    /\ ~returned.threw
    /\ returned.value
    /\ \E own \in OneCharChanges(caller.value.own) :
          /\ caller' = JSONText(Obj(own))
          /\ returned' = Call("change", <<caller>>, Returns(caller'))
    /\ UNCHANGED identity
    /\ UnchangedButDirect

\* addressFromPublicKey(caller)
AddressFromPublicKey ==
    /\ caller.type = "key"
    /\ returned' = Call("addressFromPublicKey", <<caller>>,
                        Returns(Address(addressFromPublicKey(caller.bytes))))
    /\ UNCHANGED <<identity, caller>>
    /\ UnchangedButDirect

\* addressToECPublicKey(caller)
AddressToECPublicKey ==
    /\ caller.type = "address"
    /\ returned' = Call("addressToECPublicKey", <<caller>>, addressToECPublicKey(caller.chars))
    /\ UNCHANGED <<identity, caller>>
    /\ UnchangedButDirect

CryptoNext ==
    \/ \E key \in KeyPairs : LoadIdentity(key)
    \/ LoadIdentityWithoutKey
    \/ \E format \in Formats, k \in Nonces : Sign(format, k)
    \/ Hold
    \/ Verify
    \/ Change
    \/ AddressFromPublicKey
    \/ AddressToECPublicKey

CryptoSpec == CryptoInit /\ [][CryptoNext]_vars

(***************************************************************************)
(* sign at its asynchronous boundaries.  sign awaits the digest of the     *)
(* input, then the digest _signHash signs, then the digest _prepareMessage *)
(* writes to EE_HASH; between two of them the caller runs: it may write to *)
(* the object it passed and call loadIdentity.  `caller` is the object the *)
(* caller passed, and `returned` holds the call while it is suspended: its *)
(* value is the frame of sign, the local variables at the await it is at.  *)
(***************************************************************************)
\* The values the caller writes to COMMAND.
Commands == {"get", "set"}

\* _getHash(input) up to its await: the input is read when sign is called.
signAwaitsHash(input) ==
    LET hash == _getHash(input)
    IN  IF hash.threw THEN hash
        ELSE Returns([type |-> "pending", at |-> "_getHash", binHash |-> hash.value])

\* _signHash(binHash) up to its await: this.keyPair is read here.
signAwaitsDigest(frame, keyPair) ==
    Returns([type |-> "pending", at |-> "_signHash", binHash |-> frame.binHash,
             keyPair |-> keyPair])

\* keyPair.sign, then _prepareMessage up to its await: getAddress() and the
\* input are read here, the input for the second time.
signAwaitsHashAgain(frame, input, keyPair, k) ==
    LET signatureB64 == _signHash(frame.binHash, frame.keyPair, k)
    IN  IF signatureB64.threw THEN signatureB64
        ELSE Returns([type |-> "pending", at |-> "_prepareMessage",
                      fields |-> [EE_SIGN |-> signatureB64.value,
                                  EE_SENDER |-> getAddress(keyPair),
                                  EE_HASH |-> _getHash(input).value]])

\* Object.assign({}, input, {...}) once the digest is there, and the format.
signSettles(frame, input, format) ==
    LET message == assign(ownProperties(input), frame.fields)
    IN  CASE format = "json" -> Returns(JSONText(Obj(message)))
          [] format = "object" -> Returns(Obj(message))
          [] OTHER -> Throws("Error: Unsupported format")

\* A sign is suspended.
Pending == returned.call = "sign" /\ ~returned.threw /\ returned.value.type = "pending"

AsyncInit ==
    /\ Quiet
    /\ identity = Null
    /\ hb = [n \in Nodes |-> <<>>]
    /\ caller \in { Obj([SERVER |-> "gigi", COMMAND |-> c]) : c \in Commands }
    /\ returned = NoCall

\* sign(caller, format) is called, and suspends in _getHash.
SignCalled(format) ==
    /\ ~Pending
    /\ returned' = Call("sign", <<caller, format>>, signAwaitsHash(caller))
    /\ UNCHANGED <<caller, identity>>
    /\ UnchangedButDirect

\* The digest of the input is there: sign goes on to the await of _signHash.
HashResolved ==
    /\ Pending
    /\ returned.value.at = "_getHash"
    /\ returned' = Call("sign", returned.args, signAwaitsDigest(returned.value, identity))
    /\ UNCHANGED <<caller, identity>>
    /\ UnchangedButDirect

\* The digest to sign is there: the signature is made with nonce k, and sign
\* goes on to the await of _prepareMessage.
DigestResolved(k) ==
    /\ Pending
    /\ returned.value.at = "_signHash"
    /\ returned' = Call("sign", returned.args,
                        signAwaitsHashAgain(returned.value, caller, identity, k))
    /\ UNCHANGED <<caller, identity>>
    /\ UnchangedButDirect

\* The digest for EE_HASH is there: sign settles with the envelope.
SignSettles ==
    /\ Pending
    /\ returned.value.at = "_prepareMessage"
    /\ returned' = Call("sign", returned.args,
                        signSettles(returned.value, caller, returned.args[2]))
    /\ UNCHANGED <<caller, identity>>
    /\ UnchangedButDirect

\* The caller writes to the object it passed to sign.
WriteCommand(c) ==
    /\ caller.own.COMMAND # c
    /\ caller' = Obj([caller.own EXCEPT !.COMMAND = c])
    /\ UNCHANGED <<returned, identity>>
    /\ UnchangedButDirect

AsyncNext ==
    \/ \E format \in Formats : SignCalled(format)
    \/ HashResolved
    \/ \E k \in Nonces : DigestResolved(k)
    \/ SignSettles
    \/ \E c \in Commands : WriteCommand(c)
    \/ \E key \in KeyPairs : LoadIdentity(key)

AsyncSpec == AsyncInit /\ [][AsyncNext]_vars



(***************************************************************************)
(* Properties                                                              *)

(***************************************************************************)
(* The formatter filter and the decode, called with the formatters the     *)
(* constructor registers: raw and 0xai1.0, and the custom formatters of    *)
(* the options.  A formatter is written by what its `in` is: "function",   *)
(* or "null" for a custom formatter registered without one.                *)
(***************************************************************************)
\* options.customFormatters: none, one with `in`, one with `out` only.
CustomFormatters ==
    { <<>>, <<[name |-> "custom", hasIn |-> TRUE]>>, <<[name |-> "custom", hasIn |-> FALSE]>> }

\* this.formatters after the constructor: own property name -> `in`.
constructorFormatters(customFormatters) ==
    [name \in RegisteredFormatters \cup { customFormatters[k].name : k \in DOMAIN customFormatters } |->
        IF name \in RegisteredFormatters THEN "function"
        ELSE IF \E k \in DOMAIN customFormatters :
                  customFormatters[k].name = name /\ customFormatters[k].hasIn
             THEN "function"
             ELSE "null"]

\* this.formatters[name]: <<>> is undefined, "inherited" a property of
\* Object.prototype, <<in>> a registered formatter.
formatterAt(formatters, name) ==
    IF name \in DOMAIN formatters THEN <<formatters[name]>>
    ELSE IF name \in InheritedProperties THEN <<"inherited">>
    ELSE <<>>

\* _messageHasKnownFormat(message)
_messageHasKnownFormat(formatters, message) ==
    \/ message.EE_FORMATTER = ""
    \/ message.EE_FORMATTER = Null
    \/ formatterAt(formatters, toLowerCase(message.EE_FORMATTER)) # <<>>

\* _decodeToInternalFormat(message): the formatter it used and the internal
\* message, or the TypeError of calling an `in` that is no function.
_decodeToInternalFormat(formatters, message) ==
    LET format == IF message.EE_FORMATTER = Null THEN "raw" ELSE message.EE_FORMATTER
    IN  IF formatterAt(formatters, format) = <<"function">>
        THEN Returns([format |-> format, internalMessage |-> decodeToInternalFormat(message)])
        ELSE Throws("TypeError")

\* Values of EE_FORMATTER; Null is an absent tag.
FormatterTags == {Null, "", "raw", "RAW", "0xai1.0", "custom", "unknown", "constructor"}

FormatInit ==
    /\ Quiet
    /\ identity = Null
    /\ hb = [n \in Nodes |-> <<>>]
    /\ caller \in { [formatters |-> constructorFormatters(custom), message |-> Notice(path, tag)] :
                       custom \in CustomFormatters,
                       path \in NotificationPaths, tag \in FormatterTags }
    /\ returned = NoCall

\* The filter stage of the inbound pipeline.
MessageHasKnownFormat ==
    /\ returned.call = "none"
    /\ returned' = Call("_messageHasKnownFormat", <<caller.message>>,
                        Returns(_messageHasKnownFormat(caller.formatters, caller.message)))
    /\ UnchangedButReturned

\* concatMap decodes the frames the filter let through.
DecodeToInternalFormat ==
    /\ returned.call = "_messageHasKnownFormat"
    /\ returned.value
    /\ returned' = Call("_decodeToInternalFormat", <<caller.message>>,
                        _decodeToInternalFormat(caller.formatters, caller.message))
    /\ UnchangedButReturned

FormatNext ==
    \/ MessageHasKnownFormat
    \/ DecodeToInternalFormat

FormatSpec == FormatInit /\ [][FormatNext]_vars

(***************************************************************************)
(* publish called with every kind of command and with zero, one or two     *)
(* extra watches; the calls stay suspended in sign.                        *)
(***************************************************************************)
\* Number of publish calls in a run of the commands.
MaxWatchPublish == 2

WatchMessages ==
    { [ACTION |-> NODE_COMMAND_UPDATE_PIPELINE_INSTANCE, PAYLOAD |-> <<Target("p1", "s1", "i1")>>],
      UpdateConfig,
      [ACTION |-> NODE_COMMAND_PIPELINE_COMMAND, PAYLOAD |-> <<Target("p2", Null, Null)>>],
      [ACTION |-> NODE_COMMAND_ARCHIVE_CONFIG, PAYLOAD |-> <<Target("p2", Null, Null)>>],
      [ACTION |-> NODE_COMMAND_BATCH_UPDATE_PIPELINE_INSTANCE, PAYLOAD |-> <<>>],
      [ACTION |-> NODE_COMMAND_BATCH_UPDATE_PIPELINE_INSTANCE, PAYLOAD |-> <<Target("p2", "s2", "i1")>>],
      BatchUpdate,
      Restart }

ExtraWatches ==
    { <<>>,
      <<Path("n2", "p2", Null, Null)>>,
      <<Path("n1", "p2", "s1", "i1"), Path("n1", "p1", Null, Null)>> }

WatchPublishArgs == Nodes \X WatchMessages \X ExtraWatches

WatchNext ==
    \E a \in WatchPublishArgs : Len(calls) < MaxWatchPublish /\ Publish(a[1], a[2], a[3])

WatchSpec == Init /\ [][WatchNext]_vars

(***************************************************************************)
\* The request publish call c registered.
RequestOf(c) == requests[calls[c].request]

\* The publish calls that registered a request with at least one watch.
WatchingCalls == { c \in DOMAIN calls : calls[c].request # 0 /\ Len(calls[c].watches) > 0 }

\* The timers registerMessage started for request r.
TimersOf(r) == { t \in DOMAIN timers : timers[t].request = r }

Indexed(r) == \E n \in Nodes : index[n] = r

\* C1: for a request with one or more watches, onSuccess is invoked at most
\* once, only after every watch publish built was matched by a notification
\* handed to the request, and exactly when the request is Satisfied; a request
\* with a watch still unmatched is not Satisfied.
C1_SuccessOnlyAfterAllWatches ==
    \A c \in WatchingCalls :
        /\ calls[c].resolveCalls <= 1
        /\ calls[c].resolveCalls = 1 => \A k \in DOMAIN calls[c].matched : calls[c].matched[k]
        /\ RequestOf(c).state = "Satisfied" <=> calls[c].resolveCalls = 1
        /\ (\E k \in DOMAIN calls[c].matched : ~calls[c].matched[k])
              => RequestOf(c).state # "Satisfied"

\* A request with two watches, matched by two different notifications, is
\* Satisfied and its onSuccess ran once.
C1_Witness ==
    \E c \in WatchingCalls :
        /\ Len(calls[c].watches) = 2
        /\ RequestOf(c).state = "Satisfied"
        /\ calls[c].resolveCalls = 1
        /\ calls[c].promise = "resolved"

\* C2: once a timer of a request with watches has fired, the request is
\* TimedOut, onFail was invoked exactly once and onSuccess never, whatever
\* notifications arrive afterwards.
C2_TimeoutFailsOnce ==
    \A c \in WatchingCalls :
        /\ (\E t \in TimersOf(calls[c].request) : timers[t].status = "fired")
              => /\ RequestOf(c).state = "TimedOut"
                 /\ calls[c].rejectCalls = 1
                 /\ calls[c].resolveCalls = 0
                 /\ calls[c].promise = "rejected"
        /\ calls[c].rejectCalls >= 1 => calls[c].resolveCalls = 0

\* A request timed out, and a notification matching all of its watches was
\* handed to it afterwards: onFail ran once, onSuccess never.
C2_Witness ==
    \E c \in WatchingCalls :
        /\ RequestOf(c).state = "TimedOut"
        /\ calls[c].late
        /\ calls[c].rejectCalls = 1
        /\ calls[c].resolveCalls = 0

\* C3: the callbacks of a request are invoked at most once in total, and no
\* timer of a closed request is still armed.
C3_CallbacksAtMostOnce ==
    \A c \in DOMAIN calls :
        calls[c].request # 0 =>
            /\ calls[c].resolveCalls + calls[c].rejectCalls <= 1
            /\ isClosed(World, calls[c].request)
                  => \A t \in TimersOf(calls[c].request) : timers[t].status # "armed"

\* C4: every publish call with a message is eventually settled and its
\* request is eventually closed; a settled promise keeps its outcome.
C4_EventuallyOneOutcome ==
    /\ \A c \in 1..MaxPublish :
          (c \in DOMAIN calls /\ calls[c].message # NoMessage)
             ~> (/\ c \in DOMAIN calls
                 /\ calls[c].promise # "pending"
                 /\ calls[c].request # 0
                 /\ isClosed(World, calls[c].request))
    /\ [][\A c \in DOMAIN calls :
             calls[c].promise # "pending" => calls'[c].promise = calls[c].promise]_vars

\* A command whose signing failed is settled all the same: its timer
\* rejected it.
C4_Witness ==
    \E c \in DOMAIN calls :
        /\ calls[c].pc = "signFailed"
        /\ calls[c].promise = "rejected"
        /\ RequestOf(c).state = "TimedOut"

C7_ClosedRequestNotIndexed ==
    \A r \in DOMAIN requests : isClosed(World, r) => ~Indexed(r)

\* C8: a step in which a timer fires leaves every request but the timer's
\* own, its publish call (callbacks, promise), its timers and its index
\* entries as they were.
C8_TimeoutLeavesSiblings ==
    [][\A t \in DOMAIN timers :
          (timers[t].status = "armed" /\ timers'[t].status = "fired") =>
              /\ \A r \in DOMAIN requests :
                    r # timers[t].request =>
                        /\ requests'[r] = requests[r]
                        /\ \A u \in TimersOf(r) : timers'[u] = timers[u]
                        /\ \A n \in Nodes : index[n] = r => index'[n] = r
              /\ \A c \in DOMAIN calls :
                    c # requests[timers[t].request].call => calls'[c] = calls[c]
      ]_vars

\* One request timed out while another, with one watch matched, is still
\* Pending, indexed, and its ceiling timer armed.
C8_Witness ==
    \E r, q \in DOMAIN requests :
        /\ requests[r].state = "TimedOut"
        /\ \E t \in TimersOf(r) : timers[t].status = "fired"
        /\ requests[q].state = "Pending"
        /\ \E k \in DOMAIN requests[q].watches : requests[q].watches[k].satisfied
        /\ Indexed(q)
        /\ \E t \in TimersOf(q) : timers[t].status = "armed"

\* C9: once a command without watches has been handed to the transport, no
\* step invokes its failure callback.
C9_NoFailAfterSendWithoutWatches ==
    [][\A c \in DOMAIN calls :
          (calls[c].message # NoMessage /\ Len(calls[c].watches) = 0 /\ calls[c].pc = "sent")
              => calls'[c].rejectCalls = calls[c].rejectCalls]_vars

\* C10: every message given to the transport is the signed envelope of a
\* publish call whose signing completed: it carries the three signing fields
\* over its other fields, INITIATOR_ID, the target node as EE_ID and the
\* session id of the request registered for the call, and its topic is the
\* config topic of the target node; every call whose signing completed sent
\* one.
C10_OutboundIsSignedEnvelope ==
    /\ \A m \in outbound :
          \E c \in DOMAIN calls :
              LET signed == m.payload[2]
              IN  /\ calls[c].pc = "sent"
                  /\ m.topic = <<"lummetry", calls[c].node, "config">>
                  /\ m.payload[1] = "json"
                  /\ signed.EE_ID = calls[c].node
                  /\ signed.INITIATOR_ID = Initiator
                  /\ signed.SESSION_ID = calls[c].request
                  /\ calls[c].request \in DOMAIN requests
                  /\ requests[calls[c].request].call = c
                  /\ signed.ACTION = calls[c].message.ACTION
                  /\ signed.PAYLOAD = calls[c].message.PAYLOAD
                  /\ signed.EE_SIGN.signer \in Keys
                  /\ signed.EE_SENDER = getAddress(signed.EE_SIGN.signer)
                  /\ signed.EE_SIGN.digest = signed.EE_HASH
                  /\ signed.EE_HASH =
                        <<"sha256", [ACTION |-> signed.ACTION, PAYLOAD |-> signed.PAYLOAD,
                                     INITIATOR_ID |-> signed.INITIATOR_ID,
                                     EE_ID |-> signed.EE_ID,
                                     SESSION_ID |-> signed.SESSION_ID]>>
    /\ \A c \in DOMAIN calls :
          calls[c].pc = "sent" <=>
              \E m \in outbound : m.payload[2].SESSION_ID = calls[c].request /\ calls[c].request # 0

\* Two commands were sent, to the config topics of two different nodes.
C10_Witness ==
    \E m, k \in outbound :
        /\ m.topic = <<"lummetry", "n1", "config">>
        /\ k.topic = <<"lummetry", "n2", "config">>
        /\ m.payload[2].SESSION_ID # k.payload[2].SESSION_ID

\* C11: a request whose signed command has not been handed to the transport
\* is Pending and absent from the active index.
C11_NothingBeforeSend ==
    \A c \in DOMAIN calls :
        (calls[c].request # 0 /\ calls[c].pc # "sent")
            => /\ RequestOf(c).state = "Pending"
               /\ ~Indexed(calls[c].request)

\* C13: a publish call whose signing failed is rejected, sent nothing, and
\* has no timer left to wait for.
C13_SignFailureSurfaced ==
    \A c \in DOMAIN calls :
        calls[c].pc = "signFailed"
            => /\ calls[c].promise = "rejected"
               /\ \A m \in outbound : m.payload[2].SESSION_ID # calls[c].request
               /\ \A t \in TimersOf(calls[c].request) : timers[t].status # "armed"

\* C12: a publish call for a node that is not in the fleet is rejected at
\* once: no request is created for it, no timer is started, nothing is sent.
C12_NonFleetPublishRejected ==
    [][(Len(calls') = Len(calls) + 1 /\ calls'[Len(calls')].node \notin fleet)
          => /\ calls'[Len(calls')].promise = "rejected"
             /\ calls'[Len(calls')].request = 0
             /\ requests' = requests
             /\ timers' = timers
             /\ index' = index]_vars

\* C14: no channel ends because the text of a frame failed to parse.
C14_ParseFailureDropsFrameOnly ==
    \A ch \in Channels : streams[ch].error # <<"SyntaxError">>

\* C15: every event emitted to subscribers comes from a frame whose node was
\* in the fleet when the frame arrived.
C15_NoEventFromOutsideFleet ==
    \A e \in events : e.controlled

\* C16: a frame naming a formatter that is not registered is never handed to
\* concatMap for decoding, and no channel ends because of one.
C16_UnknownFormatterDropped ==
    \A ch \in Channels :
        /\ \A i \in DOMAIN streams[ch].buffer :
              streams[ch].buffer[i].message.EE_FORMATTER \in RegisteredFormatters \cup {Null, ""}
        /\ \/ streams[ch].error = <<>>
           \/ streams[ch].error[1] # "TypeError"
           \/ streams[ch].error[2] \in RegisteredFormatters

\* C17: on every channel the frames handed to the processor, and after them
\* the frames concatMap still holds, are in the order of their arrival.
C17_DispatchInArrivalOrder ==
    \A ch \in Channels :
        LET d == dispatched[ch]
            b == streams[ch].buffer
        IN  /\ \A i, j \in DOMAIN d : i < j => d[i].seq < d[j].seq
            /\ \A i, j \in DOMAIN b : i < j => b[i].seq < b[j].seq
            /\ \A i \in DOMAIN d, j \in DOMAIN b : d[i].seq < b[j].seq

\* Two frames of one channel were handed to its processor, the second having
\* arrived while the decode of the first was not complete.
C17_Witness ==
    \E ch \in Channels :
        /\ Len(dispatched[ch]) = 2
        /\ dispatched[ch][2].queued
        /\ dispatched[ch][1].seq = 1 /\ dispatched[ch][2].seq = 2

\* C18: every watch of a Pending request that a notification handed to
\* _notificationsProcessor matched is marked satisfied, whatever the cache
\* holds for the node.
C18_MatchingIgnoresCache ==
    \A c \in WatchingCalls :
        \A k \in DOMAIN calls[c].matched :
            calls[c].matched[k] => RequestOf(c).watches[k].satisfied

\* C19: a step that hands a heartbeat to _heartbeatProcessor leaves, for the
\* node of the heartbeat, a snapshot whose data has exactly the fields and
\* values of the decoded heartbeat, whose nodeTime is the heartbeat's
\* timestamp and timezone and whose lastUpdate is the current time; the
\* snapshots of the other nodes are as before.
C19_HeartbeatReplacesSnapshot ==
    [][dispatched'["heartbeats"] # dispatched["heartbeats"] =>
          LET H == Head(streams["heartbeats"].buffer).message
              node == H.EE_PAYLOAD_PATH[1]
          IN  /\ hb'[node] # <<>>
              /\ DOMAIN hb'[node][1].data = DOMAIN H.DATA[2]
              /\ \A k \in DOMAIN H.DATA[2] : hb'[node][1].data[k] = H.DATA[2][k]
              /\ hb'[node][1].nodeTime = [date |-> H.EE_TIMESTAMP, utc |-> H.EE_TIMEZONE]
              /\ hb'[node][1].lastUpdate = now
              /\ \A m \in Nodes \ {node} : hb'[m] = hb[m]]_vars

\* The heartbeat with fewer fields was applied after the heartbeat with
\* pipelines: the snapshot has the one field of the second.
C19_Witness ==
    /\ Len(dispatched["heartbeats"]) = 2
    /\ dispatched["heartbeats"][1].timestamp = "t1"
    /\ dispatched["heartbeats"][2].timestamp = "t2"
    /\ hb["n1"] # <<>>
    /\ DOMAIN hb["n1"][1].data = {"version"}
    /\ hb["n1"][1].nodeTime.date = "t2"

\* C20: a step in which a frame arrives records the current time as the
\* last-seen timestamp of the node of its path marker; a frame without a
\* marker changes no timestamp.
C20_MarkedSeenOnArrival ==
    [][\A fr \in InboundFrames :
          FrameArrives(fr[1], fr[2]) =>
              IF fr[2][2][1] = "json" /\ fr[2][2][2].EE_PAYLOAD_PATH # NoPath
              THEN universe'[fr[2][2][2].EE_PAYLOAD_PATH[1]] = now'
              ELSE universe' = universe]_vars

\* C21: getNodeInfo, getRunningPipelineConfig and getRunningInstanceConfig
\* never throw; each returns the cached value it was asked for when the
\* cache holds it, and null (or no value) otherwise.
C21_LookupsNeverFail ==
    LET node == returned.args[1]
        pipelines == pipelinesOf(hb[node])
        pipeline == pipelines[1][returned.args[2]]
        hasPipeline == pipelines # <<>> /\ returned.args[2] \in DOMAIN pipelines[1]
        holders == IF hasPipeline /\ "plugins" \in DOMAIN pipeline
                   THEN { k \in DOMAIN pipeline.plugins :
                            returned.args[3] \in DOMAIN pipeline.plugins[k].instances }
                   ELSE {}
        none == {Null, Undefined}
    IN  /\ ~returned.threw
        /\ returned.call = "getNodeInfo" => returned.value = hb[node]
        /\ returned.call = "getRunningPipelineConfig" =>
              IF hasPipeline /\ "config" \in DOMAIN pipeline
              THEN returned.value = pipeline.config
              ELSE returned.value \in none
        /\ returned.call = "getRunningInstanceConfig" =>
              IF \E k \in holders :
                    "config" \in DOMAIN pipeline.plugins[k].instances[returned.args[3]]
              THEN \E k \in holders :
                      returned.value = field(pipeline.plugins[k].instances[returned.args[3]], "config")
              ELSE returned.value \in none

\* C26: converting a standard base64 text to URL-safe and back gives the
\* text, and so does converting a URL-safe text to standard and back; the
\* URL-safe form has '-' for every '+' and '_' for every '/', the standard
\* form the reverse; every other character and the length are kept, and the
\* empty text maps to itself.
C26_UrlSafeRoundTrip ==
    LET text == returned.args[1]
        has(t, cs) == \E i \in DOMAIN t : t[i] \in cs
        swapped(from, to) ==
            /\ Len(returned.value) = Len(text)
            /\ \A i \in DOMAIN text :
                  returned.value[i] = CASE text[i] = from[1] -> to[1]
                                        [] text[i] = from[2] -> to[2]
                                        [] OTHER -> text[i]
    IN  /\ returned.call = "base64ToUrlSafeBase64" =>
              /\ swapped(<<"+", "/">>, <<"-", "_">>)
              /\ ~has(text, {"-", "_"}) => urlSafeBase64ToBase64(returned.value) = text
        /\ returned.call = "urlSafeBase64ToBase64" =>
              /\ swapped(<<"-", "_">>, <<"+", "/">>)
              /\ ~has(text, {"+", "/"}) => base64ToUrlSafeBase64(returned.value) = text
        /\ returned.call \in {"base64ToUrlSafeBase64", "urlSafeBase64ToBase64"} =>
              (text = <<>> => returned.value = <<>>)

\* A standard text with two '+' and a '/' was converted.
C26_Witness ==
    /\ returned.call = "base64ToUrlSafeBase64"
    /\ returned.args[1] = <<"+", "/", "+">>
    /\ returned.value = <<"-", "_", "-">>

\* C22: verify never throws, and returns false for a text that is not JSON,
\* for JSON that is no object, for an envelope without EE_SIGN, EE_HASH or
\* EE_SENDER, and for a signature or an address that cannot be decoded.
C22_VerifyNeverRaises ==
    returned.call = "verify" =>
        /\ ~returned.threw
        /\ returned.args[1] \in MalformedTexts => returned.value = FALSE

\* C23: with an identity loaded, sign of an object or a string returns an
\* envelope whose EE_HASH is the digest of the canonical form of the input
\* and whose EE_SENDER is the address of the identity, and verify of the
\* JSON envelope sign returned is true.
C23_SignedEnvelopeVerifies ==
    [][ /\ \A format \in Formats, k \in Nonces :
              (Sign(format, k) /\ identity # Null /\ caller.type \in {"object", "string"})
                 => /\ ~returned'.threw
                    /\ LET own == IF format = "json" THEN returned'.value.value.own
                                  ELSE returned'.value.own
                           canonical == IF caller.type = "object" THEN stringify(caller.own)
                                        ELSE join(caller.chars)
                       IN  /\ own.EE_HASH = sha256(canonical)
                           /\ own.EE_SENDER = ADDR_PREFIX \o base64ToUrlSafeBase64(getPublic[identity])
        /\ (Verify /\ returned.call = "sign" /\ ~returned.threw /\ caller = returned.value)
              => (~returned'.threw /\ returned'.value = TRUE) ]_vars

\* C24: verify of an envelope that differs in one character of EE_SIGN, of
\* EE_HASH, of EE_SENDER or of a data field from an envelope verify accepted
\* returns false; verify accepts only an envelope whose EE_HASH is the digest
\* of its data and whose EE_SIGN is a signature of the sender over it.
C24_OneCharacterChangeFails ==
    [][ Verify =>
          /\ returned.call = "change" => (~returned'.threw /\ returned'.value = FALSE)
          /\ (~returned'.threw /\ returned'.value = TRUE) =>
                LET own == caller.value.own
                    data == [name \in DOMAIN own \ NON_DATA_FIELDS |-> own[name]]
                IN  /\ own.EE_HASH = sha256(stringify(data))
                    /\ \E key \in KeyPairs, k \in Nonces :
                          /\ \E from \in DOMAIN own.EE_SENDER :
                                urlSafeBase64ToBase64(SubSeq(own.EE_SENDER, from, Len(own.EE_SENDER)))
                                   = getPublic[key]
                          /\ urlSafeBase64ToBase64(own.EE_SIGN)
                                = toDER(ecSign(sha256(own.EE_HASH), key, k)) ]_vars

\* C25: the address made from a compressed public key starts with 0xai_ and
\* decodes to that key; an address that spells a key under either
\* recognized prefix decodes to that key.
C25_AddressRoundTrip ==
    /\ returned.call = "addressFromPublicKey" =>
          LET back == addressToECPublicKey(returned.value.chars)
          IN  /\ SubSeq(returned.value.chars, 1, Len(ADDR_PREFIX)) = ADDR_PREFIX
              /\ ~back.threw
              /\ back.value = returned.args[1].bytes
    /\ returned.call = "addressToECPublicKey" =>
          \A i \in DOMAIN ALLOWED_PREFIXES, pk \in CurvePoints :
              returned.args[1].chars = ALLOWED_PREFIXES[i] \o base64ToUrlSafeBase64(pk)
                 => (~returned.threw /\ returned.value = pk)

\* C27: loadIdentity without key material returns with a key pair loaded;
\* getAddress is then the address of that key pair and sign succeeds.
C27_GeneratedIdentityLoaded ==
    [][ LoadIdentityWithoutKey =>
          /\ ~returned'.threw
          /\ identity' \in KeyPairs
          /\ getAddress(identity') = addressFromPublicKey(getPublic[identity'])
          /\ \A k \in Nonces :
                ~signInput(Obj([SERVER |-> "gigi"]), identity', "json", k).outcome.threw ]_vars

\* C28: sign of an object or a string, called while no identity is loaded,
\* throws a NoIdentityError and returns no envelope.
C28_SignWithoutIdentity ==
    [][ \A format \in Formats, k \in Nonces :
           (Sign(format, k) /\ identity = Null /\ caller.type \in {"object", "string"})
              => (returned'.threw /\ returned'.value = "NoIdentityError") ]_vars

\* C29: sign leaves the object it was given as it was, in either format: no
\* field is added, removed or changed.
C29_SignLeavesInput ==
    [][ \A format \in Formats, k \in Nonces : Sign(format, k) => caller' = caller ]_vars

\* An object was signed in the object format: the envelope returned has the
\* three fields, the object the caller holds has none of them.
C29_Witness ==
    /\ returned.call = "sign"
    /\ ~returned.threw
    /\ returned.args[2] = "object"
    /\ caller = returned.args[1]
    /\ caller.type = "object"
    /\ NON_DATA_FIELDS \subseteq DOMAIN returned.value.own
    /\ NON_DATA_FIELDS \cap DOMAIN caller.own = {}

C32_SnapshotChangesOnlyByHeartbeat ==
    [][ \A node \in Nodes :
           hb'[node] # hb[node] =>
              /\ streams["heartbeats"].status = "open"
              /\ streams["heartbeats"].buffer # <<>>
              /\ Head(streams["heartbeats"].buffer).message.EE_PAYLOAD_PATH[1] = node
              /\ Len(dispatched'["heartbeats"]) = Len(dispatched["heartbeats"]) + 1
              /\ streams'["heartbeats"].buffer = Tail(streams["heartbeats"].buffer) ]_vars

\* The snapshot of n1 was written by a heartbeat; later a frame of n2 was
\* marked seen and a payload went through context building: n1's snapshot
\* is the heartbeat's and n2 has none.
C32_Witness ==
    /\ hb["n1"] # <<>>
    /\ hb["n2"] = <<>>
    /\ hb["n1"][1].lastUpdate < universe["n2"]
    /\ Len(dispatched["payloads"]) = 1
    /\ Len(dispatched["heartbeats"]) = 1

\* C33: when a heartbeat is handed to _heartbeatProcessor, the cache a
\* state.update listener reads and the cache the step leaves are the same,
\* and in it lastUpdate, nodeTime and data of the node are those of this
\* heartbeat; the caches between the three assignments are seen by no one:
\* in every state a snapshot pairs the data of a heartbeat with its time.
C33_NoPartialSnapshot ==
    [][ /\ dispatched'["heartbeats"] # dispatched["heartbeats"] =>
             LET H == Head(streams["heartbeats"].buffer).message
                 internal == decodeToInternalFormat(H)
                 node == H.EE_PAYLOAD_PATH[1]
                 seen == emitStateUpdate(hb, internal, now)
             IN  /\ seen = hb'
                 /\ seen[node][1].lastUpdate = now
                 /\ seen[node][1].nodeTime = [date |-> H.EE_TIMESTAMP, utc |-> H.EE_TIMEZONE]
                 /\ seen[node][1].data = H.DATA[2]
                 /\ Event("state.update", node, Head(streams["heartbeats"].buffer).seq, TRUE)
                       \in events' \ events
        /\ \A node \in Nodes :
             hb'[node] # <<>> =>
                \E fr \in InboundFrames :
                    /\ fr[1] = "heartbeats"
                    /\ hb'[node][1].nodeTime.date = toJSON(toString(fr[2])).EE_TIMESTAMP
                    /\ hb'[node][1].data = toJSON(toString(fr[2])).DATA[2]
                    /\ hb'[node][1].lastUpdate \in 0..now' ]_vars

\* A second heartbeat, with other data and another time, replaced the
\* snapshot of the first: an assignment-by-assignment update passed through
\* caches that mix the two.
C33_Witness ==
    /\ Len(dispatched["heartbeats"]) = 2
    /\ dispatched["heartbeats"][1].timestamp # dispatched["heartbeats"][2].timestamp
    /\ hb["n1"] # <<>>
    /\ hb["n1"][1].nodeTime.date = dispatched["heartbeats"][2].timestamp
    /\ \E e \in events : e.name = "state.update" /\ e.seq = dispatched["heartbeats"][2].seq

\* C34: the watches of the request publish registers are, in this order,
\* the extra watches of the caller and then those of the action: one
\* (node, NAME, SIGNATURE, INSTANCE_ID) for UPDATE_PIPELINE_INSTANCE, one
\* (node, NAME, null, null) for UPDATE_CONFIG and PIPELINE_COMMAND, one
\* (node, PAYLOAD, null, null) for ARCHIVE_CONFIG, one
\* (node, NAME, SIGNATURE, INSTANCE_ID) per element of a batch update, none
\* for another action; every watch is attached unsatisfied.
C34_WatchesOfPublish ==
    [][ \A a \in WatchPublishArgs :
           Publish(a[1], a[2], a[3]) =>
              LET node == a[1]
                  action == a[2].ACTION
                  payload == a[2].PAYLOAD
                  full(k) == <<node, payload[k].NAME, payload[k].SIGNATURE, payload[k].INSTANCE_ID>>
                  derived ==
                     IF action = "UPDATE_PIPELINE_INSTANCE" THEN <<full(1)>>
                     ELSE IF action \in {"UPDATE_CONFIG", "PIPELINE_COMMAND", "ARCHIVE_CONFIG"}
                     THEN << <<node, payload[1].NAME, Null, Null>> >>
                     ELSE IF action = "BATCH_UPDATE_PIPELINE_INSTANCE"
                     THEN [k \in 1..Len(payload) |-> full(k)]
                     ELSE <<>>
                  expected == a[3] \o derived
                  request == requests'[Len(requests')]
              IN  /\ Len(requests') = Len(requests) + 1
                  /\ Len(request.watches) = Len(expected)
                  /\ \A k \in 1..Len(expected) :
                        /\ request.watches[k].path = expected[k]
                        /\ ~request.watches[k].satisfied ]_vars

\* A batch update of two instances was published with two extra watches:
\* the request has the four watches, the extra ones first.
C34_Witness ==
    \E r \in DOMAIN requests :
        /\ requests[r].action = NODE_COMMAND_BATCH_UPDATE_PIPELINE_INSTANCE
        /\ Len(requests[r].watches) = 4
        /\ requests[r].watches[1].path = Path("n1", "p2", "s1", "i1")
        /\ requests[r].watches[4].path = Path("n2", "p2", "s2", "i1")

\* A heartbeat of the node has arrived.  The heartbeats of the inbound
\* frames are those of a fleet node on a stream that never ends: one that
\* arrived is held by concatMap or has been written to the cache.
HeartbeatWitnessed(node) ==
    \/ hb[node] # <<>>
    \/ \E k \in DOMAIN streams["heartbeats"].buffer :
          LET message == streams["heartbeats"].buffer[k].message
          IN  message.EE_EVENT_TYPE = MESSAGE_TYPE_HEARTBEAT /\ message.EE_PAYLOAD_PATH[1] = node

\* C35: getNodeManager(node) returns a NodeManager only if the node is in
\* the fleet and a heartbeat of the node has been witnessed, and null in
\* every other case.
C35_ManagerOnlyForWitnessedFleetNode ==
    \A node \in Nodes :
        getNodeManager(fleet, universe, node) # <<>>
           => (node \in fleet /\ HeartbeatWitnessed(node))

\* C36: the decode of a frame the known-format filter accepted does not
\* fail: it uses a formatter that is registered with an `in` function, and
\* the raw formatter when the tag is absent or empty.
C36_AcceptedFrameDecodes ==
    returned.call = "_decodeToInternalFormat" =>
        /\ ~returned.threw
        /\ returned.value.format \in DOMAIN caller.formatters
        /\ caller.formatters[returned.value.format] = "function"
        /\ caller.message.EE_FORMATTER \in {Null, ""} => returned.value.format = "raw"

\* C37: while requests targeting one node are Pending together, a
\* notification that matches an unsatisfied watch of any of them marks that
\* watch satisfied, and every one of them that is still Pending afterwards
\* is the request find returns for the paths it watches.
C37_ConcurrentRequestsOfOneNode ==
    [][ \A path \in NotificationPaths :
           Notification(path) =>
              \A r \in DOMAIN requests :
                 requests[r].state = "Pending" =>
                    \A k \in DOMAIN requests[r].watches :
                       /\ Matches(requests[r].watches[k].path, path)
                             => requests'[r].watches[k].satisfied
                       /\ requests'[r].state = "Pending"
                             => index'[requests[r].watches[k].path[1]] = r ]_vars

\* The envelope of a sign that settled, whatever its format.
SettledEnvelope ==
    IF returned.value.type = "json" THEN returned.value.value.own ELSE returned.value.own

\* A sign settled with an envelope.
Settled == returned.call = "sign" /\ ~returned.threw /\ returned.value.type # "pending"

\* C38: in every envelope sign returns, EE_SIGN is a signature over the
\* digest of EE_HASH, also when the caller writes to the message object
\* while sign is suspended at one of its awaits.
C38_HashIsTheSignedHash ==
    Settled =>
        \E key \in KeyPairs, k \in Nonces :
            SettledEnvelope.EE_SIGN = _signHash(SettledEnvelope.EE_HASH, key, k).value

\* C39: once an identity is loaded the key pair of the instance stays the
\* same in every later state, and in every envelope sign returns EE_SENDER
\* is the address of the key pair that made EE_SIGN, whatever loadIdentity
\* calls happen while sign is suspended.
C39_IdentityStaysAndSenderSigned ==
    [][ /\ identity # Null => identity' = identity
        /\ (SignSettles /\ ~returned'.threw) =>
              LET own == IF returned'.value.type = "json" THEN returned'.value.value.own
                         ELSE returned'.value.own
              IN  \E key \in KeyPairs, k \in Nonces, c \in Commands :
                      /\ own.EE_SENDER = getAddress(key)
                      /\ own.EE_SIGN =
                            _signHash(_getHash(Obj([SERVER |-> "gigi", COMMAND |-> c])).value,
                                      key, k).value ]_vars

====
